---- MODULE Spec2Model ----
(***************************************************************************)
(* Model of the reference-resolution and usage-accounting engine of the    *)
(* GTM container analyzer (src/gtm-analyzer.py, class GTMAnalyzer).        *)
(*                                                                         *)
(* Strings are sequences of characters, so that the Reference Scanner      *)
(* (a regular-expression search) and the Occurrence Counter (str.count)    *)
(* are computed on the text and not assumed.  JSON values are records      *)
(* tagged with their kind.                                                 *)
(***************************************************************************)
EXTENDS Integers, Sequences, FiniteSets, TLC

(***************************************************************************)
(* Bounds of the model.                                                    *)
(***************************************************************************)
\* Largest number of variable-to-variable references in a resolver container.
MaxEdges == 4
\* Largest call depth the resolver may reach (frames on the stack).
MaxDepth == 5
\* Largest number of components of an index container that carry references.
MaxFilled == 2

(***************************************************************************)
(* Characters, names and JSON values.                                      *)
(***************************************************************************)
LB == "{"
RB == "}"

\* The names of the variables of a container, as character sequences.
VarNames == {<<"A">>, <<"B">>, <<"C">>, <<"D">>}
\* A name that no variable of any modelled container carries.
Unresolvable == <<"Z">>

\* JSON values: a string, a list, a mapping (keys[i] maps to items[i]), a
\* boolean, null, or a number.  A field is read only after the kind has been tested.
Str(s)        == [kind |-> "str",  str |-> s]
List(xs)      == [kind |-> "list", items |-> xs]
Dict(ks, xs)  == [kind |-> "dict", keys |-> ks, items |-> xs]
Bool(v)       == [kind |-> "bool", b |-> v]
Null          == [kind |-> "null"]
Num(n)        == [kind |-> "num",  n |-> n]

\* dict.get(key, default)
Get(obj, key, default) ==
    IF \E i \in 1..Len(obj.keys) : obj.keys[i] = key
    THEN obj.items[CHOOSE i \in 1..Len(obj.keys) : obj.keys[i] = key]
    ELSE default

\* Python truth value of a JSON value.
Truthy(v) ==
    \/ v.kind = "bool" /\ v.b
    \/ v.kind = "str" /\ v.str # <<>>
    \/ v.kind \in {"list", "dict"} /\ v.items # <<>>

\* The text {{name}}.
RefText(name) == <<LB, LB>> \o name \o <<RB, RB>>

RECURSIVE SetToSeq(_)
SetToSeq(S) == IF S = {} THEN <<>>
               ELSE LET x == CHOOSE y \in S : TRUE IN <<x>> \o SetToSeq(S \ {x})

\* The elements of a sequence.
Range(seq) == {seq[i] : i \in 1..Len(seq)}

(***************************************************************************)
(* Reference Scanner: re.findall(r'\{\{([^}]+)\}\}', value).               *)
(***************************************************************************)
\* Mutant: the group is '.+', which runs to the last "}}" of the text.
LastClose(s, j) ==
    LET closes == {k \in j..(Len(s) - 1) : s[k] = RB /\ s[k + 1] = RB}
    IN  IF closes = {} THEN Len(s) + 1
        ELSE CHOOSE k \in closes : \A m \in closes : m <= k

\* Position of the first "}" at or after j, Len(s)+1 when there is none:
\* where the greedy group [^}]+ started at j has to stop.
FirstClose(s, j) ==
    CHOOSE k \in j..(Len(s) + 1) :
        /\ (k = Len(s) + 1 \/ s[k] = RB)
        /\ \A m \in j..(k - 1) : s[m] # RB

\* The pattern matches at position i.
MatchAt(s, i) ==
    /\ i + 1 <= Len(s)
    /\ s[i] = LB
    /\ s[i + 1] = LB
    /\ LET k == FirstClose(s, i + 2)
       IN  /\ k > i + 2
           /\ k + 1 <= Len(s)
           /\ s[k + 1] = RB

\* The groups of the leftmost non-overlapping matches from position i on.
RECURSIVE FindAll(_, _)
FindAll(s, i) ==
    IF i > Len(s) THEN {}
    ELSE IF MatchAt(s, i)
         THEN LET k == FirstClose(s, i + 2)
              IN  {SubSeq(s, i + 2, k - 1)} \cup FindAll(s, k + 2)
         ELSE FindAll(s, i + 1)

get_variable_references_in_value(value) ==
    IF value.kind = "str" THEN FindAll(value.str, 1) ELSE {}

RECURSIVE get_variable_references_in_object(_)
get_variable_references_in_object(obj) ==
    IF obj.kind = "str" THEN get_variable_references_in_value(obj)
    ELSE IF obj.kind \in {"dict", "list"}
         THEN UNION {get_variable_references_in_object(obj.items[i]) :
                        i \in 1..Len(obj.items)}
         ELSE {}

(***************************************************************************)
(* Occurrence Counter: str.count of the text {{var_name}}.                 *)
(***************************************************************************)
\* str.count(p): non-overlapping occurrences of p in s from position i on.
RECURSIVE StrCount(_, _, _)
StrCount(s, p, i) ==
    IF i + Len(p) - 1 > Len(s) THEN 0
    ELSE IF SubSeq(s, i, i + Len(p) - 1) = p
         THEN 1 + StrCount(s, p, i + Len(p))
         ELSE StrCount(s, p, i + 1)

RECURSIVE SumSeq(_)
SumSeq(ns) == IF ns = <<>> THEN 0 ELSE Head(ns) + SumSeq(Tail(ns))

\* Mutant: the pattern lacks the closing braces.
pattern_open(var_name) == <<LB, LB>> \o var_name

\* pattern = f'{{{{{var_name}}}}}'
pattern(var_name) == RefText(var_name)

RECURSIVE count_variable_occurrences_in_object(_, _)
count_variable_occurrences_in_object(obj, var_name) ==
    IF obj.kind = "str" THEN StrCount(obj.str, pattern(var_name), 1)
    ELSE IF obj.kind \in {"dict", "list"}
         THEN SumSeq([i \in 1..Len(obj.items) |->
                        count_variable_occurrences_in_object(obj.items[i], var_name)])
         ELSE 0

(***************************************************************************)
(* State.                                                                  *)
(***************************************************************************)
VARIABLES
    gtm_data,             \* self.gtm_data, the document the analyzer is built from
    variables,            \* self.variables: the container's Variable objects
    tags,                 \* self.tags
    triggers,             \* self.triggers
    transformations,      \* self.transformations
    clients,              \* self.clients
    custom_templates,     \* self.custom_templates
    include_paused_tags,  \* self.include_paused_tags
    pc,                   \* how far the run has got
    unused_variables,     \* result of find_unused_variables
    usage_details,        \* result of get_variable_usage_details
    usage_counts,         \* result of get_variable_usage_counts
    start,                \* var_name of the outermost resolver call
    set_order,            \* the order in which this run iterates a set of names
    stack,                \* call frames of get_all_variable_references_recursive
    result,               \* the mapping the outermost resolver call returned
    duplicate_variables,  \* result of find_duplicate_variables
    unused_custom_templates, \* result of find_unused_custom_templates
    trigger_impact,       \* result of analyze_trigger_evaluation_impact
    tag_impact,           \* result of analyze_tag_evaluation_impact
    unknown_tag_types,    \* self.unknown_tag_types
    unknown_variable_types,  \* self.unknown_variable_types
    scan_obj,             \* obj of a call of the scanner or of the counter
    scan_var_name,        \* var_name of a call of the counter
    scan_references,      \* the set the scanner returned
    scan_count,           \* the number the counter returned
    report                \* the report mapping main builds and saves

container == <<gtm_data, variables, tags, triggers, transformations, clients,
               custom_templates, include_paused_tags>>
index_out == <<unused_variables, usage_details, usage_counts>>
resolver  == <<start, set_order, stack, result>>
impact    == <<trigger_impact, tag_impact, unknown_tag_types, unknown_variable_types>>
reports   == <<duplicate_variables, unused_custom_templates, impact>>
scanner   == <<scan_obj, scan_var_name, scan_references, scan_count>>
vars      == <<container, pc, index_out, resolver, reports, scanner, report>>

\* No call of the scanner or of the counter on an argument of its own has
\* been made.
ScannerIdle ==
    /\ scan_obj = [kind |-> "null"]
    /\ scan_var_name = <<>>
    /\ scan_references = {}
    /\ scan_count = 0

\* Keys of the component mappings.
K_name         == <<"name">>
K_type         == <<"type">>
K_variableId   == <<"variableId">>
K_paused       == <<"paused">>
K_parameter    == <<"parameter">>
K_key          == <<"key">>
K_value        == <<"value">>
K_templateData == <<"templateData">>

\* Type discriminators: a plain data-layer variable, a custom-template one.
TypeV   == <<"v">>
TypeCvt == <<"cvt_", "1", "_", "2">>

\* Mutant: every type counts as the type of a custom template.
StartsWithAnything(t) == Len(t) >= 1

\* str.startswith('cvt_')
StartsWithCvt(t) == Len(t) >= 1 /\ t[1] = "cvt_"

\* The name of a component, as a character sequence; an element that is no
\* mapping has none, and its name is read only where that raises.
NameOf(component) ==
    IF component.kind = "dict" THEN Get(component, K_name, Str(<<>>)).str ELSE <<>>

\* A parameter list with one {key, value} mapping per text.
ParameterList(texts) ==
    List([i \in 1..Len(texts) |->
            Dict(<<K_key, K_value>>, <<Str(<<"p">>), Str(texts[i])>>)])

\* A Variable object; its id is made from its name.
Variable(name, type, texts) ==
    Dict(<<K_name, K_variableId, K_type, K_parameter>>,
         <<Str(name), Str(<<"id_">> \o name), Str(type), ParameterList(texts)>>)

\* An empty mapping, and adding two count mappings key by key.
EmptyMap == <<>>
CountAt(m, k) == IF k \in DOMAIN m THEN m[k] ELSE 0
AddCounts(m1, m2) ==
    [k \in (DOMAIN m1) \cup (DOMAIN m2) |-> CountAt(m1, k) + CountAt(m2, k)]

(***************************************************************************)
(* The document and the constructor.                                       *)
(***************************************************************************)
K_containerVersion == <<"containerVersion">>
CollectionKeys == <<<<"variable">>, <<"tag">>, <<"trigger">>, <<"transformation">>,
                    <<"client">>, <<"customTemplate">>>>

\* The document of a container whose six collections are lists.
Document(vs, ts, gs, xs, cs, ps) ==
    Dict(<<K_containerVersion>>,
         <<Dict(CollectionKeys,
                <<List(vs), List(ts), List(gs), List(xs), List(cs), List(ps)>>)>>)

\* self.container_version.get(key, []): the value the attribute is bound to.
Held(key) ==
    Get(Get(gtm_data, K_containerVersion, Dict(<<>>, <<>>)), key, List(<<>>))

\* What a loop over the attribute yields: the elements of a list, the keys
\* of a mapping.  Any other value is kept as it is; a loop over it raises.
Elements(key) ==
    CASE Held(key).kind = "list" -> Held(key).items
      [] Held(key).kind = "dict" -> [i \in 1..Len(Held(key).keys) |-> Str(Held(key).keys[i])]
      [] OTHER -> Held(key)

(***************************************************************************)
(* Transitive Reference Resolver: get_all_variable_references_recursive,   *)
(* one frame per call.                                                     *)
(***************************************************************************)
\* A new call frame: the callee has not run yet.
Frame(var_name, visited) ==
    [var_name |-> var_name, visited |-> visited, pending |-> {},
     all_refs |-> EmptyMap, at |-> "enter"]

\* for v in self.variables: if v['name'] == var_name: var = v; break
HasVariable(var_name) ==
    \E i \in 1..Len(variables) : NameOf(variables[i]) = var_name
FindVariable(var_name) ==
    variables[CHOOSE i \in 1..Len(variables) :
                 /\ NameOf(variables[i]) = var_name
                 /\ \A j \in 1..(i - 1) : NameOf(variables[j]) # var_name]

\* Mutant: the test for a name already on the path never succeeds.
OnPathNever(var_name, visited) == FALSE

\* if var_name in visited: return {}
OnPath(var_name, visited) == var_name \in visited

\* Mutant: the callee works on the caller's own set (no copy), so the names
\* it adds stay visited for the caller's later branches.
VisitedShared(own, callee) == own \cup callee

\* The visited set the caller goes on with after a nested call returned:
\* the callee received visited.copy(), so the caller's own set is untouched.
VisitedAfterCall(own, callee) == own

\* Mutant: a reference to a name on the current path is not counted.
CountReferenceOffPath(all_refs, ref, visited) ==
    IF ref \in visited THEN all_refs
    ELSE AddCounts(all_refs, [k \in {ref} |-> 1])

\* all_refs[ref] += 1, done before the nested call and whatever the path
\* (visited) holds.
CountReference(all_refs, ref, visited) ==
    AddCounts(all_refs, [k \in {ref} |-> 1])

\* Mutant: the counts of the nested call are thrown away.
MergeNestedDropped(all_refs, nested_refs) == all_refs

\* for nested_ref, count in nested_refs.items(): all_refs[nested_ref] += count
MergeNested(all_refs, nested_refs) == AddCounts(all_refs, nested_refs)

\* Iteration orders of a set of names.  The order of a Python set of strings
\* is fixed by the string hashes of the run; two opposite orders are modelled.
NameOrder == <<<<"A">>, <<"B">>, <<"C">>, <<"D">>>>
Ascending  == NameOrder \o <<Unresolvable>>
Descending == <<Unresolvable>> \o [i \in 1..Len(NameOrder) |->
                                     NameOrder[Len(NameOrder) + 1 - i]]
SetOrders == {Ascending, Descending}

\* The element of the non-empty set S that the iteration yields first.
FirstOf(S) ==
    set_order[CHOOSE i \in 1..Len(set_order) :
                 /\ set_order[i] \in S
                 /\ \A j \in 1..(i - 1) : set_order[j] \notin S]

\* The head of the call: the visited test, visited.add, the lookup and the scan.
ResolverEnter ==
    /\ pc = "resolving"
    /\ stack # <<>>
    /\ LET f == stack[Len(stack)]
       IN  /\ f.at = "enter"
           /\ stack' =
                [stack EXCEPT ![Len(stack)] =
                    IF OnPath(f.var_name, f.visited)
                    THEN [f EXCEPT !.at = "loop"]
                    ELSE IF ~HasVariable(f.var_name)
                    THEN [f EXCEPT !.at = "loop",
                                   !.visited = f.visited \cup {f.var_name}]
                    ELSE [f EXCEPT !.at = "loop",
                                   !.visited = f.visited \cup {f.var_name},
                                   !.pending = get_variable_references_in_object(
                                                   FindVariable(f.var_name))]]
    /\ UNCHANGED <<scanner, report, container, reports, pc, index_out, start, set_order, result>>

\* One turn of "for ref in direct_refs": count the reference, then call.
ResolverIterate ==
    /\ pc = "resolving"
    /\ stack # <<>>
    /\ Len(stack) < MaxDepth
    /\ LET f == stack[Len(stack)]
       IN  /\ f.at = "loop"
           /\ f.pending # {}
           /\ LET ref == FirstOf(f.pending)
              IN stack' =
                    Append([stack EXCEPT ![Len(stack)] =
                               [f EXCEPT !.at = "call",
                                         !.pending = f.pending \ {ref},
                                         !.all_refs = CountReference(f.all_refs,
                                                          ref, f.visited)]],
                           Frame(ref, f.visited))
    /\ UNCHANGED <<scanner, report, container, reports, pc, index_out, start, set_order, result>>

\* return all_refs: to the caller, which adds the counts to its own, or, from
\* the outermost call, as the result.
ResolverReturn ==
    /\ pc = "resolving"
    /\ stack # <<>>
    /\ LET f == stack[Len(stack)]
       IN  /\ f.at = "loop"
           /\ f.pending = {}
           /\ IF Len(stack) = 1
              THEN /\ stack' = <<>>
                   /\ result' = f.all_refs
                   /\ pc' = "resolved"
              ELSE LET c == stack[Len(stack) - 1]
                   IN  /\ stack' =
                            [SubSeq(stack, 1, Len(stack) - 1)
                                EXCEPT ![Len(stack) - 1] =
                                    [c EXCEPT !.at = "loop",
                                              !.visited = VisitedAfterCall(c.visited, f.visited),
                                              !.all_refs = MergeNested(c.all_refs, f.all_refs)]]
                       /\ UNCHANGED <<result, pc>>
    /\ UNCHANGED <<scanner, report, container, reports, index_out, start, set_order>>

\* The references of the resolver containers: pairs <<from, to>>, among the
\* variables and from the first variable to a name no variable carries.
AllEdges == (VarNames \X VarNames) \cup {<<<<"A">>, Unresolvable>>}
Targets(E, n) == {e[2] : e \in {d \in E : d[1] = n}}

\* Containers of four variables with at most MaxEdges references among
\* them, each reference in a parameter mapping of its own.
ResolverInit ==
    /\ \E E \in {S \in SUBSET AllEdges : Cardinality(S) <= MaxEdges} :
          variables = [i \in 1..Len(NameOrder) |->
                          Variable(NameOrder[i], TypeV,
                                   [j \in 1..Cardinality(Targets(E, NameOrder[i])) |->
                                       RefText(SetToSeq(Targets(E, NameOrder[i]))[j])])]
    /\ tags = <<>>
    /\ triggers = <<>>
    /\ transformations = <<>>
    /\ clients = <<>>
    /\ custom_templates = <<>>
    /\ include_paused_tags = TRUE
    /\ gtm_data = Document(variables, tags, triggers, transformations,
                           clients, custom_templates)
    /\ pc = "resolving"
    /\ unused_variables = <<>>
    /\ usage_details = EmptyMap
    /\ usage_counts = EmptyMap
    /\ start \in {<<"A">>, Unresolvable}
    /\ set_order \in SetOrders
    /\ stack = <<Frame(start, {})>>
    /\ result = EmptyMap
    /\ duplicate_variables = EmptyMap
    /\ unused_custom_templates = <<>>
    /\ trigger_impact = EmptyMap
    /\ tag_impact = EmptyMap
    /\ unknown_tag_types = {}
    /\ unknown_variable_types = {}
    /\ ScannerIdle
    /\ report = EmptyMap

ResolverNext == ResolverEnter \/ ResolverIterate \/ ResolverReturn

\* The interpreter keeps running a call that has a next step.
ResolverSpec == ResolverInit /\ [][ResolverNext]_vars /\ WF_vars(ResolverNext)

\* Containers whose reference texts are repeated: at most MaxChainEdges
\* references among the four variables, the text of each written the same
\* number of times, from once to MaxRepeats times, each time in a parameter
\* mapping of its own.
MaxChainEdges == 3
MaxRepeats == 2

\* The texts of the references to the names of S, each written r times.
RepeatedTexts(S, r) ==
    [j \in 1..(r * Cardinality(S)) |-> RefText(SetToSeq(S)[((j - 1) % Cardinality(S)) + 1])]

ChainInit ==
    /\ \E E \in {S \in SUBSET AllEdges : Cardinality(S) <= MaxChainEdges} :
          \E r \in 1..MaxRepeats :
              variables = [i \in 1..Len(NameOrder) |->
                              Variable(NameOrder[i], TypeV,
                                       RepeatedTexts(Targets(E, NameOrder[i]), r))]
    /\ tags = <<>>
    /\ triggers = <<>>
    /\ transformations = <<>>
    /\ clients = <<>>
    /\ custom_templates = <<>>
    /\ include_paused_tags = TRUE
    /\ gtm_data = Document(variables, tags, triggers, transformations,
                           clients, custom_templates)
    /\ pc = "resolving"
    /\ unused_variables = <<>>
    /\ usage_details = EmptyMap
    /\ usage_counts = EmptyMap
    /\ start \in {<<"A">>, Unresolvable}
    /\ set_order = Ascending
    /\ stack = <<Frame(start, {})>>
    /\ result = EmptyMap
    /\ duplicate_variables = EmptyMap
    /\ unused_custom_templates = <<>>
    /\ trigger_impact = EmptyMap
    /\ tag_impact = EmptyMap
    /\ unknown_tag_types = {}
    /\ unknown_variable_types = {}
    /\ ScannerIdle
    /\ report = EmptyMap

ChainSpec == ChainInit /\ [][ResolverNext]_vars

(***************************************************************************)
(* Components of the index containers.                                     *)
(***************************************************************************)
K_list == <<"list">>
K_map  == <<"map">>

\* A Tag object; the key 'paused' is present only on a paused tag.
Tag(name, paused, texts) ==
    IF paused
    THEN Dict(<<K_name, K_type, K_paused, K_parameter>>,
              <<Str(name), Str(<<"html">>), Bool(TRUE), ParameterList(texts)>>)
    ELSE Dict(<<K_name, K_type, K_parameter>>,
              <<Str(name), Str(<<"html">>), ParameterList(texts)>>)

\* A Trigger object: the texts sit deep in nested lists and mappings, as in
\* the "Deep nesting" case of test_variable_detection.
Trigger(name, texts) ==
    Dict(<<K_name, K_type, K_list>>,
         <<Str(name), Str(<<"pageview">>),
           List(<<Dict(<<K_map>>, <<ParameterList(texts)>>)>>)>>)

\* A Transformation or Client object.
Plain(name, type, texts) ==
    Dict(<<K_name, K_type, K_parameter>>,
         <<Str(name), Str(type), ParameterList(texts)>>)

\* A CustomTemplate object: the text is its templateData.
CustomTemplate(name, text) ==
    Dict(<<K_name, K_templateData>>, <<Str(name), Str(text)>>)

\* component.get('paused', False)
IsPaused(component) == Truthy(Get(component, K_paused, Bool(FALSE)))

\* The marker appended to the name of a paused tag.
PausedSuffix == <<" (PAUSED)">>

\* The usage categories, in the order in which the records list them.
CountKeys == <<"tags", "triggers", "variables", "transformations", "clients",
               "custom_templates">>
CountKeySet == {CountKeys[i] : i \in 1..Len(CountKeys)}

\* The components of a components_to_check list, one after the other, each
\* with its component_type and the key of its category.
RECURSIVE Flatten(_)
Flatten(to_check) ==
    IF to_check = <<>> THEN <<>>
    ELSE [i \in 1..Len(Head(to_check)[2]) |->
             [component_type |-> Head(to_check)[1],
              component |-> Head(to_check)[2][i],
              key |-> Head(to_check)[3]]]
         \o Flatten(Tail(to_check))

\* The names of the container's variables.
VariableNameSet == {NameOf(variables[i]) : i \in 1..Len(variables)}

(***************************************************************************)
(* find_unused_variables.                                                  *)
(***************************************************************************)
unused_components_to_check ==
    Flatten(<< <<"tag", tags, "tags">>,
               <<"trigger", triggers, "triggers">>,
               <<"variable", variables, "variables">>,
               <<"transformation", transformations, "transformations">>,
               <<"client", clients, "clients">>,
               <<"customTemplate", custom_templates, "custom_templates">> >>)

\* Mutant: paused tags are scanned whatever the configuration says.
unused_skipped_never(component_type, component) == FALSE

\* if component_type == 'tag' and paused: if not include_paused_tags: continue
unused_skipped(component_type, component) ==
    component_type = "tag" /\ IsPaused(component) /\ ~include_paused_tags

\* Mutant: a variable's mention of its own name is kept.
unused_component_refs_with_self(component_type, component) ==
    get_variable_references_in_object(component)

\* The references of a component, a variable's own name discarded.
unused_component_refs(component_type, component) ==
    LET component_refs == get_variable_references_in_object(component)
    IN  IF component_type = "variable" /\ NameOf(component) \in component_refs
        THEN component_refs \ {NameOf(component)}
        ELSE component_refs

\* referenced_variables after the components from the i-th on were scanned.
RECURSIVE ReferencedFrom(_, _)
ReferencedFrom(to_check, i) ==
    IF i > Len(to_check) THEN {}
    ELSE (IF unused_skipped(to_check[i].component_type, to_check[i].component)
          THEN {}
          ELSE unused_component_refs(to_check[i].component_type,
                                     to_check[i].component))
         \cup ReferencedFrom(to_check, i + 1)

referenced_variables == ReferencedFrom(unused_components_to_check, 1)

\* The entries of the variables from the i-th on whose name is not referenced.
RECURSIVE UnusedFrom(_, _)
UnusedFrom(referenced, i) ==
    IF i > Len(variables) THEN <<>>
    ELSE (IF NameOf(variables[i]) \notin referenced
          THEN <<[name |-> NameOf(variables[i]),
                  variableId |-> Get(variables[i], K_variableId, Str(<<>>)).str,
                  type |-> Get(variables[i], K_type, Str(<<>>)).str]>>
          ELSE <<>>)
         \o UnusedFrom(referenced, i + 1)

find_unused_variables == UnusedFrom(referenced_variables, 1)

(***************************************************************************)
(* get_variable_usage_details.                                             *)
(***************************************************************************)
details_components_to_check ==
    Flatten(<< <<"tags", tags, "used_in_tags">>,
               <<"triggers", triggers, "used_in_triggers">>,
               <<"transformations", transformations, "used_in_transformations">>,
               <<"variables", variables, "used_in_variables">>,
               <<"clients", clients, "used_in_clients">>,
               <<"customTemplate", custom_templates, "used_in_custom_templates">> >>)

DetailKeySet == {"used_in_tags", "used_in_triggers", "used_in_transformations",
                 "used_in_variables", "used_in_clients", "used_in_custom_templates"}

details_skipped(component_type, component) ==
    component_type = "tags" /\ IsPaused(component) /\ ~include_paused_tags

\* The scan of the component, for a custom template joined with the scan of
\* its templateData, a variable's own name discarded.
details_component_refs(component_type, component) ==
    LET template_data == Get(component, K_templateData, Str(<<>>))
        component_refs ==
            get_variable_references_in_object(component)
            \cup (IF component_type = "customTemplate"
                  THEN get_variable_references_in_value(template_data)
                  ELSE {})
    IN  IF component_type = "variables" /\ NameOf(component) \in component_refs
        THEN component_refs \ {NameOf(component)}
        ELSE component_refs

\* if var_name in usage_details
details_known(var_name) == var_name \in VariableNameSet

\* The components that are not skipped, from the i-th on, each with the
\* references found in it.
RECURSIVE DetailScans(_, _)
DetailScans(to_check, i) ==
    IF i > Len(to_check) THEN <<>>
    ELSE (IF details_skipped(to_check[i].component_type, to_check[i].component)
          THEN <<>>
          ELSE <<[key |-> to_check[i].key,
                  name |-> NameOf(to_check[i].component),
                  refs |-> details_component_refs(to_check[i].component_type,
                                                  to_check[i].component)]>>)
         \o DetailScans(to_check, i + 1)

\* The names of the scanned components under usage_key that mention var_name.
RECURSIVE DetailNames(_, _, _)
DetailNames(scans, var_name, usage_key) ==
    IF scans = <<>> THEN <<>>
    ELSE (IF /\ Head(scans).key = usage_key
             /\ var_name \in Head(scans).refs
             /\ details_known(var_name)
          THEN <<Head(scans).name>>
          ELSE <<>>)
         \o DetailNames(Tail(scans), var_name, usage_key)

\* usage_details[...] of a name that is no key of the mapping: a KeyError.
details_key_error ==
    LET scans == DetailScans(details_components_to_check, 1)
    IN  \E i \in 1..Len(scans) :
            \E var_name \in scans[i].refs :
                details_known(var_name) /\ var_name \notin VariableNameSet

get_variable_usage_details ==
    LET scans == DetailScans(details_components_to_check, 1)
    IN  [var_name \in VariableNameSet |->
            [used_in \in DetailKeySet |-> DetailNames(scans, var_name, used_in)]
            @@ [total_usage \in {"total_usage"} |->
                   SumSeq([i \in 1..Len(scans) |->
                              IF var_name \in scans[i].refs /\ details_known(var_name)
                              THEN 1 ELSE 0])]]

(***************************************************************************)
(* get_variable_usage_counts.                                              *)
(***************************************************************************)
counts_components_to_check ==
    Flatten(<< <<"tags", tags, "tags">>,
               <<"triggers", triggers, "triggers">>,
               <<"variables", variables, "variables">>,
               <<"transformations", transformations, "transformations">>,
               <<"clients", clients, "clients">>,
               <<"customTemplate", custom_templates, "custom_templates">> >>)

\* Mutant: paused tags are counted whatever the configuration says.
counts_skipped_never(component_type, component) == FALSE

\* if component_type == 'tags' and paused: if not include_paused_tags: continue
counts_skipped(component_type, component) ==
    component_type = "tags" /\ IsPaused(component) /\ ~include_paused_tags

\* Mutant: a variable's mention of its own name is kept.
counts_component_refs_with_self(component_type, component) ==
    get_variable_references_in_object(component)

\* The scan of the component, for a custom template joined with the scan of
\* its templateData, a variable's own name discarded.
counts_component_refs(component_type, component) ==
    LET template_data == Get(component, K_templateData, Str(<<>>))
        component_refs ==
            get_variable_references_in_object(component)
            \cup (IF component_type = "customTemplate"
                  THEN get_variable_references_in_value(template_data)
                  ELSE {})
    IN  IF component_type = "variables" /\ NameOf(component) \in component_refs
        THEN component_refs \ {NameOf(component)}
        ELSE component_refs

\* Mutant: every reference is taken for the name of a variable.
counts_known_always(var_name) == TRUE

\* if var_name in usage_counts
counts_known(var_name) == var_name \in VariableNameSet

\* Mutant: a custom-template variable is counted like any other variable.
actual_count_key_plain(component_type, component, count_key) == count_key

\* The category a use is recorded under: custom_templates for a referencing
\* variable whose type starts with cvt_, else the category of the component.
actual_count_key(component_type, component, count_key) ==
    IF /\ component_type = "variables"
       /\ StartsWithCvt(Get(component, K_type, Str(<<>>)).str)
    THEN "custom_templates"
    ELSE count_key

\* Mutant: the paused marker is never appended.
recorded_name_unmarked(component_type, component) == NameOf(component)

\* The component name put into usage_components.
recorded_name(component_type, component) ==
    IF component_type = "tags" /\ IsPaused(component)
    THEN NameOf(component) \o PausedSuffix
    ELSE NameOf(component)

\* Mutant: the category count grows by the number of occurrences.
location_increment_by_occurrences(occurrences) == occurrences

\* usage_locations[actual_count_key] += 1
location_increment(occurrences) == 1

\* The components that are not skipped, from the i-th on, each with the
\* references found in it.
RECURSIVE CountScans(_, _)
CountScans(to_check, i) ==
    IF i > Len(to_check) THEN <<>>
    ELSE (IF counts_skipped(to_check[i].component_type, to_check[i].component)
          THEN <<>>
          ELSE <<[component_type |-> to_check[i].component_type,
                  component |-> to_check[i].component,
                  key |-> to_check[i].key,
                  refs |-> counts_component_refs(to_check[i].component_type,
                                                 to_check[i].component)]>>)
         \o CountScans(to_check, i + 1)

\* What the scanned components add to the record of var_name, in processing
\* order: the category, the recorded name and the number of occurrences.
RECURSIVE Contributions(_, _)
Contributions(scans, var_name) ==
    IF scans = <<>> THEN <<>>
    ELSE LET e == Head(scans)
             occurrences == count_variable_occurrences_in_object(e.component, var_name)
         IN  (IF /\ var_name \in e.refs
                 /\ counts_known(var_name)
                 /\ occurrences > 0
              THEN <<[key |-> actual_count_key(e.component_type, e.component, e.key),
                      name |-> recorded_name(e.component_type, e.component),
                      occurrences |-> occurrences]>>
              ELSE <<>>)
             \o Contributions(Tail(scans), var_name)

\* usage_counts[...] of a name that is no key of the mapping: a KeyError.
counts_key_error ==
    LET scans == CountScans(counts_components_to_check, 1)
    IN  \E i \in 1..Len(scans) :
            \E var_name \in scans[i].refs :
                /\ counts_known(var_name)
                /\ var_name \notin VariableNameSet
                /\ count_variable_occurrences_in_object(scans[i].component, var_name) > 0

\* The sum of the increments, the names and the sum of the occurrences of
\* the contributions under key.
RECURSIVE LocationCount(_, _)
LocationCount(cs, key) ==
    IF cs = <<>> THEN 0
    ELSE (IF Head(cs).key = key THEN location_increment(Head(cs).occurrences) ELSE 0)
         + LocationCount(Tail(cs), key)

RECURSIVE ComponentNames(_, _)
ComponentNames(cs, key) ==
    IF cs = <<>> THEN <<>>
    ELSE (IF Head(cs).key = key THEN <<Head(cs).name>> ELSE <<>>)
         \o ComponentNames(Tail(cs), key)

RECURSIVE TotalOccurrences(_)
TotalOccurrences(cs) ==
    IF cs = <<>> THEN 0 ELSE Head(cs).occurrences + TotalOccurrences(Tail(cs))

\* Mutant: the uses by clients are left out of the sum.
potential_reevaluations_without_clients(locations) ==
    locations["tags"] + locations["triggers"] + locations["variables"]
    + locations["custom_templates"] + locations["transformations"]

\* potential_reevals: the sum of the six category counts.
potential_reevaluations(locations) ==
    locations["tags"] + locations["triggers"] + locations["variables"]
    + locations["custom_templates"] + locations["transformations"]
    + locations["clients"]

\* Mutant: the uses are added up instead of the categories counted.
minimum_reevaluations_summed(locations) ==
    SumSeq([i \in 1..Len(CountKeys) |-> locations[CountKeys[i]]])

\* sum(1 for count in locations.values() if count > 0)
minimum_reevaluations(locations) ==
    Cardinality({k \in CountKeySet : locations[k] > 0})

\* The record of the variable var, from what the components add to it.
UsageRecord(var, cs) ==
    LET locations == [k \in CountKeySet |-> LocationCount(cs, k)]
    IN  [variable |-> var,
         usage_locations |-> locations,
         usage_components |-> [k \in CountKeySet |-> ComponentNames(cs, k)],
         total_references |-> TotalOccurrences(cs),
         evaluation_contexts |->
            Cardinality({k \in CountKeySet : locations[k] > 0}),
         potential_reevaluations |-> potential_reevaluations(locations),
         minimum_reevaluations |-> minimum_reevaluations(locations)]

\* The variable whose record stays under var_name after the initialising
\* loop: the last one of that name.
LastVariable(var_name) ==
    variables[CHOOSE i \in 1..Len(variables) :
                 /\ NameOf(variables[i]) = var_name
                 /\ \A j \in (i + 1)..Len(variables) : NameOf(variables[j]) # var_name]

get_variable_usage_counts ==
    LET scans == CountScans(counts_components_to_check, 1)
    IN  [var_name \in VariableNameSet |->
            UsageRecord(LastVariable(var_name), Contributions(scans, var_name))]

(***************************************************************************)
(* The analysis of one container: the index operations in the order in     *)
(* which generate_report and generate_detailed_report call them.           *)
(***************************************************************************)
FindUnusedVariables ==
    /\ pc = "start"
    /\ unused_variables' = find_unused_variables
    /\ pc' = "unused"
    /\ UNCHANGED <<scanner, report, container, reports, usage_details, usage_counts, resolver>>

GetVariableUsageDetails ==
    /\ pc = "unused"
    /\ IF details_key_error
       THEN pc' = "error" /\ UNCHANGED usage_details
       ELSE pc' = "detailed" /\ usage_details' = get_variable_usage_details
    /\ UNCHANGED <<scanner, report, container, reports, unused_variables, usage_counts, resolver>>

GetVariableUsageCounts ==
    /\ pc = "detailed"
    /\ IF counts_key_error
       THEN pc' = "error" /\ UNCHANGED usage_counts
       ELSE pc' = "counted" /\ usage_counts' = get_variable_usage_counts
    /\ UNCHANGED <<scanner, report, container, reports, unused_variables, usage_details, resolver>>

\* The components of the index containers and the texts they may carry.
IndexVariables == <<<<"A">>, <<"B">>>>
Slots == {"A", "B", "T1", "T2", "G1", "X1", "L1", "P1"}
VariableSlots == {"A", "B"}
TagSlots == {"T1", "T2"}
IndexTexts ==
    { RefText(<<"A">>),
      RefText(<<"B">>),
      RefText(<<"A">>) \o RefText(<<"A">>),
      RefText(<<"A">>) \o <<" ">> \o RefText(<<"B">>),
      RefText(Unresolvable) }
\* The texts of a trigger, transformation, client or custom template.
OtherTexts == { RefText(<<"A">>), RefText(Unresolvable) }
TextsFor(slot) ==
    IF slot \in VariableSlots \cup TagSlots THEN IndexTexts ELSE OtherTexts

\* The parameter texts of a slot: its text if it carries one.
TextsOf(fill, slot) == IF slot \in DOMAIN fill THEN <<fill[slot]>> ELSE <<>>
TextOf(fill, slot)  == IF slot \in DOMAIN fill THEN fill[slot] ELSE <<>>

\* Containers with two variables, two tags and one trigger, transformation,
\* client and custom template, of which at most MaxFilled carry a text; a
\* variable that carries a text has either type, a tag that carries a text
\* is paused or not.
IndexInit ==
    /\ \E F \in {S \in SUBSET Slots : Cardinality(S) <= MaxFilled} :
       \E fill \in {f \in [F -> IndexTexts] : \A slot \in F : f[slot] \in TextsFor(slot)} :
       \E cvt \in SUBSET (F \cap VariableSlots) :
       \E paused \in SUBSET (F \cap TagSlots) :
          /\ variables =
                <<Variable(<<"A">>, IF "A" \in cvt THEN TypeCvt ELSE TypeV,
                           TextsOf(fill, "A")),
                  Variable(<<"B">>, IF "B" \in cvt THEN TypeCvt ELSE TypeV,
                           TextsOf(fill, "B"))>>
          /\ tags = <<Tag(<<"T1">>, "T1" \in paused, TextsOf(fill, "T1")),
                      Tag(<<"T2">>, "T2" \in paused, TextsOf(fill, "T2"))>>
          /\ triggers = <<Trigger(<<"G1">>, TextsOf(fill, "G1"))>>
          /\ transformations = <<Plain(<<"X1">>, <<"Unknown">>, TextsOf(fill, "X1"))>>
          /\ clients = <<Plain(<<"L1">>, <<"ga4">>, TextsOf(fill, "L1"))>>
          /\ custom_templates = <<CustomTemplate(<<"P1">>, TextOf(fill, "P1"))>>
    /\ include_paused_tags \in BOOLEAN
    /\ gtm_data = Document(variables, tags, triggers, transformations,
                           clients, custom_templates)
    /\ pc = "start"
    /\ unused_variables = <<>>
    /\ usage_details = EmptyMap
    /\ usage_counts = EmptyMap
    /\ start = <<"A">>
    /\ set_order = Ascending
    /\ stack = <<>>
    /\ result = EmptyMap
    /\ duplicate_variables = EmptyMap
    /\ unused_custom_templates = <<>>
    /\ trigger_impact = EmptyMap
    /\ tag_impact = EmptyMap
    /\ unknown_tag_types = {}
    /\ unknown_variable_types = {}
    /\ ScannerIdle
    /\ report = EmptyMap

Init == IndexInit

Next == FindUnusedVariables \/ GetVariableUsageDetails \/ GetVariableUsageCounts

Spec == Init /\ [][Next]_vars

(***************************************************************************)
(* Duplicate Grouping Engine: find_duplicate_variables.                    *)
(***************************************************************************)
\* Largest number of variables in a container of the grouping runs.
MaxDupVars == 3

K_formatValue == <<"formatValue">>

\* str(value) as an f-string field does it: a string as it is, None as "None".
Format(value) == IF value.kind = "str" THEN value.str ELSE <<"None">>

\* key_info after "for param in parameters: key_info[param.get('key')] =
\* param.get('value')": k is a key if some parameter carries it, and its
\* value is the value of the last such parameter.
InKeyInfo(parameters, k) ==
    \E i \in 1..Len(parameters.items) :
        Get(parameters.items[i], K_key, Null) = Str(k)
KeyInfo(parameters, k) ==
    Get(parameters.items[
            CHOOSE i \in 1..Len(parameters.items) :
                /\ Get(parameters.items[i], K_key, Null) = Str(k)
                /\ \A j \in (i + 1)..Len(parameters.items) :
                      Get(parameters.items[j], K_key, Null) # Str(k)],
        K_value, Null)
\* key_info as a mapping: the keys in the order in which they were first
\* set, each with its last value.
RECURSIVE KeyInfoKeys(_, _)
KeyInfoKeys(parameters, i) ==
    IF i > Len(parameters.items) THEN <<>>
    ELSE LET k == Get(parameters.items[i], K_key, Null)
         IN  (IF k.kind = "str"
                 /\ \A j \in 1..(i - 1) : Get(parameters.items[j], K_key, Null) # k
              THEN <<k.str>> ELSE <<>>)
             \o KeyInfoKeys(parameters, i + 1)
KeyInfoDict(parameters) ==
    LET ks == KeyInfoKeys(parameters, 1)
    IN  Dict(ks, [n \in 1..Len(ks) |-> KeyInfo(parameters, ks[n])])

\* key_info.get(k, default)
KeyInfoGet(parameters, k, default) ==
    IF InKeyInfo(parameters, k) THEN KeyInfo(parameters, k) ELSE default

\* extract_format_value_info: the conversions the formatValue carries, each
\* under its label; None when there are none.
Conversions ==
    << <<<<"convertNullToValue">>, <<"Convert NULL to">>>>,
       <<<<"convertUndefinedToValue">>, <<"Convert undefined to">>>>,
       <<<<"convertTrueToValue">>, <<"Convert true to">>>>,
       <<<<"convertFalseToValue">>, <<"Convert false to">>>>,
       <<<<"caseConversionType">>, <<"Case conversion">>>>,
       <<<<"convertNaNToValue">>, <<"Convert NaN to">>>>,
       <<<<"convertEmptyToValue">>, <<"Convert empty to">>>> >>

RECURSIVE ConversionInfo(_, _)
ConversionInfo(format_value, i) ==
    IF i > Len(Conversions) THEN Dict(<<>>, <<>>)
    ELSE LET rest == ConversionInfo(format_value, i + 1)
             value == Get(format_value, Conversions[i][1], Null)
         IN  IF \E n \in 1..Len(format_value.keys) :
                    format_value.keys[n] = Conversions[i][1]
             THEN Dict(<<Conversions[i][2]>> \o rest.keys,
                       <<IF value.kind = "dict"
                            /\ \E n \in 1..Len(value.keys) : value.keys[n] = K_value
                         THEN Get(value, K_value, Null)
                         ELSE value>> \o rest.items)
             ELSE rest

extract_format_value_info(format_value) ==
    IF ~Truthy(format_value) THEN Null
    ELSE LET info == ConversionInfo(format_value, 1)
         IN  IF Truthy(info) THEN info ELSE Null

\* The candidate parameters of a custom-template variable, and the order in
\* which sorted() puts the texts "param:value": by code point, ':' before
\* 'P', so "key:" comes before "keyPath:".
TemplateKeyParams ==
    <<<<"queryParamName">>, <<"pageLocation">>, <<"keyPath">>, <<"name">>, <<"key">>>>
SortedKeyParams ==
    <<<<"key">>, <<"keyPath">>, <<"name">>, <<"pageLocation">>, <<"queryParamName">>>>

\* '|'.join(sorted(template_key_params)), from the i-th candidate on.
RECURSIVE JoinKeyParams(_, _, _)
JoinKeyParams(parameters, i, first) ==
    IF i > Len(SortedKeyParams) THEN <<>>
    ELSE IF InKeyInfo(parameters, SortedKeyParams[i])
         THEN (IF first THEN <<>> ELSE <<"|">>)
              \o SortedKeyParams[i] \o <<":">>
              \o Format(KeyInfo(parameters, SortedKeyParams[i]))
              \o JoinKeyParams(parameters, i + 1, FALSE)
         ELSE JoinKeyParams(parameters, i + 1, first)

\* component = key_info.get('component', 'UNSPECIFIED')
url_component(parameters) ==
    KeyInfoGet(parameters, <<"component">>, Str(<<"UNSPECIFIED">>))

\* The key of a URL variable: the component, then the queryKey if it is
\* truthy, else the customUrlSource if it is truthy.
url_key(parameters) ==
    LET component == url_component(parameters)
        query_key == KeyInfoGet(parameters, <<"queryKey">>, Str(<<>>))
        custom_url_source == KeyInfoGet(parameters, <<"customUrlSource">>, Str(<<>>))
    IN  IF Truthy(query_key)
        THEN <<"url", "|">> \o Format(component) \o <<"|">> \o Format(query_key)
        ELSE IF Truthy(custom_url_source)
        THEN <<"url", "|">> \o Format(component) \o <<"|">> \o Format(custom_url_source)
        ELSE <<"url", "|">> \o Format(component)

\* Mutant: a variable is keyed whether or not it has the parameter.
has_required_always(parameters, k) == TRUE

\* 'name' in key_info, 'keyPath' in key_info
has_required(parameters, k) == InKeyInfo(parameters, k)

\* Mutant: the version is left out of the key of a data-layer variable.
data_layer_key_without_version(parameters) ==
    <<"datalayer", "|">> \o Format(KeyInfoGet(parameters, <<"name">>, Null))

\* f"datalayer|{key_info['name']}|v{key_info.get('dataLayerVersion', '2')}"
data_layer_key(parameters) ==
    <<"datalayer", "|">> \o Format(KeyInfoGet(parameters, <<"name">>, Null))
    \o <<"|", "v">>
    \o Format(KeyInfoGet(parameters, <<"dataLayerVersion">>, Str(<<"2">>)))

\* if template_key_params
template_keyed(parameters) ==
    \E i \in 1..Len(TemplateKeyParams) : InKeyInfo(parameters, TemplateKeyParams[i])

\* The bucket a variable is put into, "" when it is put into none.
BucketNames == <<"data_layer_duplicates", "event_data_duplicates",
                 "cookie_duplicates", "js_variable_duplicates", "url_duplicates",
                 "custom_template_duplicates", "other_duplicates">>
BucketOf(var) ==
    LET var_type == Get(var, K_type, Null)
        parameters == Get(var, K_parameter, List(<<>>))
    IN  IF var_type = Str(<<"v">>) /\ has_required(parameters, <<"name">>)
        THEN "data_layer_duplicates"
        ELSE IF var_type = Str(<<"ed">>) /\ has_required(parameters, <<"keyPath">>)
        THEN "event_data_duplicates"
        ELSE IF var_type = Str(<<"k">>) /\ has_required(parameters, <<"name">>)
        THEN "cookie_duplicates"
        ELSE IF var_type = Str(<<"j">>) /\ has_required(parameters, <<"name">>)
        THEN "js_variable_duplicates"
        ELSE IF var_type = Str(<<"u">>)
        THEN "url_duplicates"
        ELSE IF Truthy(var_type) /\ StartsWithCvt(var_type.str)
                /\ template_keyed(parameters)
        THEN "custom_template_duplicates"
        ELSE ""

\* The grouping key of a variable that is put into a bucket.
GroupKey(var) ==
    LET var_type == Get(var, K_type, Null)
        parameters == Get(var, K_parameter, List(<<>>))
        bucket == BucketOf(var)
    IN  IF bucket = "data_layer_duplicates" THEN data_layer_key(parameters)
        ELSE IF bucket = "event_data_duplicates"
        THEN <<"eventdata", "|">> \o Format(KeyInfoGet(parameters, <<"keyPath">>, Null))
        ELSE IF bucket = "cookie_duplicates"
        THEN <<"cookie", "|">> \o Format(KeyInfoGet(parameters, <<"name">>, Null))
        ELSE IF bucket = "js_variable_duplicates"
        THEN <<"jsvar", "|">> \o Format(KeyInfoGet(parameters, <<"name">>, Null))
        ELSE IF bucket = "url_duplicates" THEN url_key(parameters)
        ELSE <<"custom", "|">> \o var_type.str \o <<"|">>
             \o JoinKeyParams(parameters, 1, TRUE)

\* The entry appended to the group of a variable.
GroupEntry(var) ==
    LET var_type == Get(var, K_type, Null)
        parameters == Get(var, K_parameter, List(<<>>))
        bucket == BucketOf(var)
        common == [name |-> NameOf(var),
                   variableId |-> Get(var, K_variableId, Str(<<>>)).str,
                   type |-> var_type.str,
                   formatValue |-> extract_format_value_info(
                                       Get(var, K_formatValue, Dict(<<>>, <<>>)))]
    IN  IF bucket = "data_layer_duplicates"
        THEN common @@
             [path |-> KeyInfoGet(parameters, <<"name">>, Null),
              version |-> KeyInfoGet(parameters, <<"dataLayerVersion">>, Str(<<"2">>)),
              defaultValue |-> KeyInfoGet(parameters, <<"defaultValue">>, Str(<<>>))]
        ELSE IF bucket = "event_data_duplicates"
        THEN common @@
             [keyPath |-> KeyInfoGet(parameters, <<"keyPath">>, Null),
              defaultValue |-> KeyInfoGet(parameters, <<"defaultValue">>, Str(<<>>))]
        ELSE IF bucket = "cookie_duplicates"
        THEN common @@ [cookieName |-> KeyInfoGet(parameters, <<"name">>, Null)]
        ELSE IF bucket = "js_variable_duplicates"
        THEN common @@ [jsVarName |-> KeyInfoGet(parameters, <<"name">>, Null)]
        ELSE IF bucket = "url_duplicates"
        THEN common @@
             [component |-> url_component(parameters),
              queryKey |-> KeyInfoGet(parameters, <<"queryKey">>, Str(<<>>))]
        ELSE common @@ [parameters |-> KeyInfoDict(parameters)]

\* Mutant: every key becomes a group, also the key of a single variable.
is_reported_group_any(group) == Len(group) > 0

\* if len(variables) > 1
is_reported_group(group) == Len(group) > 1

\* variable_groups after the loop over the variables: for each variable put
\* into a bucket, its bucket, key and entry, in the order of the variables.
RECURSIVE Keyed(_, _)
Keyed(vs, i) ==
    IF i > Len(vs) THEN <<>>
    ELSE (IF BucketOf(vs[i]) = "" THEN <<>>
          ELSE <<[bucket |-> BucketOf(vs[i]), key |-> GroupKey(vs[i]),
                  entry |-> GroupEntry(vs[i])]>>)
         \o Keyed(vs, i + 1)

\* The entries of the keyed variables from the i-th on with this bucket and key.
RECURSIVE GroupOf(_, _, _, _)
GroupOf(keyed, bucket, key, i) ==
    IF i > Len(keyed) THEN <<>>
    ELSE (IF keyed[i].bucket = bucket /\ keyed[i].key = key
          THEN <<keyed[i].entry>> ELSE <<>>)
         \o GroupOf(keyed, bucket, key, i + 1)

\* duplicates[bucket]: the groups of the bucket that are reported, in the
\* order in which their keys were first met.
RECURSIVE GroupsOf(_, _, _)
GroupsOf(keyed, bucket, i) ==
    IF i > Len(keyed) THEN <<>>
    ELSE (IF /\ keyed[i].bucket = bucket
             /\ \A j \in 1..(i - 1) :
                   ~(keyed[j].bucket = bucket /\ keyed[j].key = keyed[i].key)
             /\ is_reported_group(GroupOf(keyed, bucket, keyed[i].key, 1))
          THEN <<GroupOf(keyed, bucket, keyed[i].key, 1)>>
          ELSE <<>>)
         \o GroupsOf(keyed, bucket, i + 1)

find_duplicate_variables ==
    LET keyed == Keyed(variables, 1)
    IN  [bucket \in {BucketNames[i] : i \in 1..Len(BucketNames)} |->
            GroupsOf(keyed, bucket, 1)]

FindDuplicateVariables ==
    /\ pc = "grouping"
    /\ duplicate_variables' = find_duplicate_variables
    /\ pc' = "grouped"
    /\ UNCHANGED <<scanner, report, container, index_out, resolver, unused_custom_templates, impact>>

\* A parameter list with one {key, value} mapping per pair <<key, value>>.
Parameters(pairs) ==
    List([i \in 1..Len(pairs) |->
            Dict(<<K_key, K_value>>, <<Str(pairs[i][1]), Str(pairs[i][2])>>)])

\* The variables of the grouping runs: a type and the parameters.  A
\* dataLayerVersion is "1" or "2"; names, paths and template fields are free
\* text and may hold the characters the keys are joined with.
TypeCvtOther == <<"cvt_", "1", "_", "3">>
DupProfiles ==
    << <<<<"v">>, <<>>>>,
       <<<<"v">>, << <<<<"name">>, <<"a">>>> >>>>,
       <<<<"v">>, << <<<<"name">>, <<"a">>>>, <<<<"dataLayerVersion">>, <<"2">>>> >>>>,
       <<<<"v">>, << <<<<"name">>, <<"a">>>>, <<<<"dataLayerVersion">>, <<"1">>>> >>>>,
       <<<<"v">>, << <<<<"name">>, <<"a", "|", "v", "1">>>> >>>>,
       <<<<"ed">>, <<>>>>,
       <<<<"ed">>, << <<<<"keyPath">>, <<"a">>>> >>>>,
       <<<<"ed">>, << <<<<"keyPath">>, <<"b">>>> >>>>,
       <<<<"ed">>, << <<<<"name">>, <<"a">>>> >>>>,
       <<<<"k">>, << <<<<"keyPath">>, <<"a">>>> >>>>,
       <<<<"k">>, << <<<<"name">>, <<"a">>>> >>>>,
       <<<<"j">>, <<>>>>,
       <<<<"j">>, << <<<<"name">>, <<"a">>>> >>>>,
       <<<<"u">>, <<>>>>,
       <<<<"u">>, << <<<<"component">>, <<"QUERY">>>> >>>>,
       <<<<"u">>, << <<<<"component">>, <<"QUERY">>>>, <<<<"queryKey">>, <<"g">>>> >>>>,
       <<<<"u">>, << <<<<"component">>, <<"QUERY">>>>, <<<<"queryKey">>, <<"f">>>> >>>>,
       <<<<"u">>, << <<<<"component">>, <<"QUERY">>>>, <<<<"customUrlSource">>, <<"g">>>> >>>>,
       <<<<"u">>, << <<<<"component">>, <<"QUERY">>>>, <<<<"queryKey">>, <<>>>>,
                     <<<<"customUrlSource">>, <<"f">>>> >>>>,
       <<<<"u">>, << <<<<"component">>, <<"PATH">>>>, <<<<"queryKey">>, <<"g">>>> >>>>,
       <<TypeCvt, << <<<<"other">>, <<"a">>>> >>>>,
       <<TypeCvt, << <<<<"key">>, <<"a">>>> >>>>,
       <<TypeCvt, << <<<<"key">>, <<"a">>>>, <<<<"name">>, <<"b">>>> >>>>,
       <<TypeCvt, << <<<<"name">>, <<"b">>>>, <<<<"key">>, <<"a">>>> >>>>,
       <<TypeCvt, << <<<<"key">>, <<"a", "|", "name", ":", "b">>>> >>>>,
       <<TypeCvtOther, << <<<<"key">>, <<"a">>>> >>>>,
       <<<<"jsm">>, << <<<<"name">>, <<"a">>>> >>>> >>

\* The lists of n profile numbers, from lo on, in rising order: the order of
\* the variables only decides the order of the entries in a group.
RECURSIVE ProfileLists(_, _)
ProfileLists(n, lo) ==
    IF n = 0 THEN {<<>>}
    ELSE UNION {{<<i>> \o rest : rest \in ProfileLists(n - 1, i)} :
                   i \in lo..Len(DupProfiles)}

\* Containers of MaxDupVars variables named A, B, C, ... and nothing else.
DupInit ==
    /\ \E ps \in ProfileLists(MaxDupVars, 1) :
          variables = [i \in 1..MaxDupVars |->
                          Dict(<<K_name, K_variableId, K_type, K_parameter>>,
                               <<Str(NameOrder[i]), Str(<<"id_">> \o NameOrder[i]),
                                 Str(DupProfiles[ps[i]][1]),
                                 Parameters(DupProfiles[ps[i]][2])>>)]
    /\ tags = <<>>
    /\ triggers = <<>>
    /\ transformations = <<>>
    /\ clients = <<>>
    /\ custom_templates = <<>>
    /\ include_paused_tags = TRUE
    /\ gtm_data = Document(variables, tags, triggers, transformations,
                           clients, custom_templates)
    /\ pc = "grouping"
    /\ unused_variables = <<>>
    /\ usage_details = EmptyMap
    /\ usage_counts = EmptyMap
    /\ start = <<"A">>
    /\ set_order = Ascending
    /\ stack = <<>>
    /\ result = EmptyMap
    /\ duplicate_variables = EmptyMap
    /\ unused_custom_templates = <<>>
    /\ trigger_impact = EmptyMap
    /\ tag_impact = EmptyMap
    /\ unknown_tag_types = {}
    /\ unknown_variable_types = {}
    /\ ScannerIdle
    /\ report = EmptyMap

DupNext == FindDuplicateVariables

DupSpec == DupInit /\ [][DupNext]_vars

(***************************************************************************)
(* Unused-template detection: find_unused_custom_templates.                *)
(***************************************************************************)
K_containerId       == <<"containerId">>
K_templateId        == <<"templateId">>
K_galleryReference  == <<"galleryReference">>
K_galleryTemplateId == <<"galleryTemplateId">>
K_fingerprint       == <<"fingerprint">>
K_tagId             == <<"tagId">>
K_clientId          == <<"clientId">>

\* The quote character, the white space and the category names of the
\* patterns searched in templateData.
Q == "\""
WhiteSpace == {" "}
Categories == {"TAG", "MACRO", "CLIENT"}

\* The character of s at i, "" where s has none.
At(s, i) == IF i \in 1..Len(s) THEN s[i] ELSE ""

\* Where \s* started at i stops.
SkipSpace(s, i) ==
    CHOOSE j \in i..(Len(s) + 1) :
        /\ At(s, j) \notin WhiteSpace
        /\ \A n \in i..(j - 1) : s[n] \in WhiteSpace

\* "key"\s*:\s*" matches at i: the position of the character after the
\* last quote, 0 when it does not match.
AfterKey(s, i, key) ==
    IF At(s, i) = Q /\ At(s, i + 1) = key /\ At(s, i + 2) = Q
       /\ At(s, SkipSpace(s, i + 3)) = ":"
       /\ At(s, SkipSpace(s, SkipSpace(s, i + 3) + 1)) = Q
    THEN SkipSpace(s, SkipSpace(s, i + 3) + 1) + 1
    ELSE 0

\* re.search(r'"type"\s*:\s*"(TAG|MACRO|CLIENT)"', s): the group of the
\* leftmost match from i on, "UNKNOWN" when there is none.
RECURSIVE SearchCategory(_, _)
SearchCategory(s, i) ==
    IF i > Len(s) THEN "UNKNOWN"
    ELSE LET g == AfterKey(s, i, "type")
         IN  IF g > 0 /\ At(s, g) \in Categories /\ At(s, g + 1) = Q
             THEN s[g]
             ELSE SearchCategory(s, i + 1)

\* re.search(r'"id"\s*:\s*"([^"]+)"', s): the group of the leftmost match
\* from i on, the empty text when there is none.
RECURSIVE SearchId(_, _)
SearchId(s, i) ==
    IF i > Len(s) THEN <<>>
    ELSE LET g == AfterKey(s, i, "id")
             close == IF g = 0 THEN 0
                      ELSE CHOOSE n \in g..(Len(s) + 1) :
                              /\ (n = Len(s) + 1 \/ s[n] = Q)
                              /\ \A m \in g..(n - 1) : s[m] # Q
         IN  IF g > 0 /\ close > g /\ close <= Len(s)
             THEN SubSeq(s, g, close - 1)
             ELSE SearchId(s, i + 1)

\* template_category
template_category(template) ==
    LET template_data == Get(template, K_templateData, Str(<<>>))
    IN  IF template_data.kind = "str"
        THEN SearchCategory(template_data.str, 1)
        ELSE "UNKNOWN"

\* f"cvt_{container_id}_{template_id}"
template_type(template) ==
    <<"cvt_">> \o Format(Get(template, K_containerId, Str(<<>>)))
    \o <<"_">> \o Format(Get(template, K_templateId, Str(<<>>)))

\* gallery_ref.get('galleryTemplateId', '')
gallery_template_id(template) ==
    Get(Get(template, K_galleryReference, Dict(<<>>, <<>>)),
        K_galleryTemplateId, Str(<<>>))

\* template_data_id, the empty text for None.
template_data_id(template) ==
    LET template_data == Get(template, K_templateData, Str(<<>>))
    IN  IF template_data.kind = "str" THEN SearchId(template_data.str, 1) ELSE <<>>

\* The identifiers under which a template is entered into template_usage,
\* in the order of the assignments.
TemplateIds(template) ==
    LET gallery_type == <<"cvt_">> \o Format(gallery_template_id(template))
    IN  <<template_type(template)>>
        \o (IF Truthy(gallery_template_id(template))
               /\ gallery_type # template_type(template)
            THEN <<gallery_type>> ELSE <<>>)
        \o (IF template_data_id(template) # <<>>
               /\ template_data_id(template) # template_type(template)
            THEN <<template_data_id(template)>> ELSE <<>>)

\* template_usage[id] = n: the assignment keeps the place of a key that is
\* already there and appends a new one.  An entry is <<id, n>>, n the number
\* of the template whose template_info the key refers to.
Assign(usage, id, n) ==
    IF \E i \in 1..Len(usage) : usage[i][1] = id
    THEN [i \in 1..Len(usage) |-> IF usage[i][1] = id THEN <<id, n>> ELSE usage[i]]
    ELSE Append(usage, <<id, n>>)

RECURSIVE AssignAll(_, _, _)
AssignAll(usage, ids, n) ==
    IF ids = <<>> THEN usage
    ELSE AssignAll(Assign(usage, Head(ids), n), Tail(ids), n)

\* template_usage after the loop over the first n templates.
RECURSIVE TemplateUsage(_)
TemplateUsage(n) ==
    IF n = 0 THEN <<>>
    ELSE AssignAll(TemplateUsage(n - 1), TemplateIds(custom_templates[n]), n)

\* The template that template_usage[id] refers to, 0 when id is no key.
InfoOf(usage, id) ==
    IF \E i \in 1..Len(usage) : usage[i][1] = id
    THEN usage[CHOOSE i \in 1..Len(usage) : usage[i][1] = id][2]
    ELSE 0

\* Mutant: a paused component marks nothing when paused tags are excluded.
consumes_unless_excluded(usage, component, category) ==
    LET n == InfoOf(usage, Get(component, K_type, Str(<<>>)).str)
    IN  /\ n # 0 /\ template_category(custom_templates[n]) = category
        /\ ~(IsPaused(component) /\ ~include_paused_tags)

\* var_type in template_usage and template_usage[var_type]['category'] ==
\* category: the component marks the template it refers to as used.
consumes(usage, component, category) ==
    LET n == InfoOf(usage, Get(component, K_type, Str(<<>>)).str)
    IN  n # 0 /\ template_category(custom_templates[n]) = category

\* The templates whose template_info has 'used' set after the three loops.
UsedTemplates(usage) ==
    {InfoOf(usage, Get(variables[i], K_type, Str(<<>>)).str) :
        i \in {j \in 1..Len(variables) : consumes(usage, variables[j], "MACRO")}}
    \cup {InfoOf(usage, Get(tags[i], K_type, Str(<<>>)).str) :
        i \in {j \in 1..Len(tags) : consumes(usage, tags[j], "TAG")}}
    \cup {InfoOf(usage, Get(clients[i], K_type, Str(<<>>)).str) :
        i \in {j \in 1..Len(clients) : consumes(usage, clients[j], "CLIENT")}}

\* template_fingerprint in seen_templates
fingerprint_seen(seen_templates, template_fingerprint) == template_fingerprint \in seen_templates

\* The entry of an unused template met under the key template_type.
UnusedEntry(id, template) ==
    [name |-> Get(template, K_name, Str(<<"Unnamed Template">>)),
     templateId |-> Get(template, K_templateId, Str(<<>>)),
     type |-> id,
     category |-> template_category(template),
     is_gallery |-> Truthy(gallery_template_id(template)),
     gallery_id |-> gallery_template_id(template),
     fingerprint |-> Get(template, K_fingerprint, Str(<<>>))]

\* unused_templates after the keys of template_usage from the i-th on.
RECURSIVE CollectUnused(_, _, _, _)
CollectUnused(usage, used, i, seen_templates) ==
    IF i > Len(usage) THEN <<>>
    ELSE LET template == custom_templates[usage[i][2]]
             template_fingerprint == Get(template, K_fingerprint, Str(<<>>))
         IN  IF usage[i][2] \notin used /\ ~fingerprint_seen(seen_templates, template_fingerprint)
             THEN <<UnusedEntry(usage[i][1], template)>>
                  \o CollectUnused(usage, used, i + 1,
                                   seen_templates \cup {template_fingerprint})
             ELSE CollectUnused(usage, used, i + 1, seen_templates)

find_unused_custom_templates ==
    LET usage == TemplateUsage(Len(custom_templates))
    IN  CollectUnused(usage, UsedTemplates(usage), 1, {})

FindUnusedCustomTemplates ==
    /\ pc = "templates"
    /\ unused_custom_templates' = find_unused_custom_templates
    /\ pc' = "templates_done"
    /\ UNCHANGED <<scanner, report, container, index_out, resolver, duplicate_variables, impact>>

\* The containers of the template detection: two templates and at most
\* MaxConsumers components of a template type.
MaxConsumers == 1

\* templateData that declares category c, and the "id" that follows it.
CategoryText(c) == <<Q, "type", Q, ":", " ", Q, c, Q>>
IdText == <<",", " ", Q, "id", Q, " ", ":", Q, "cvt_", "temp", Q>>

\* The templateData of a template: a declared category, one that is none of
\* the three, a category followed by an id, and a value that is no string.
TemplateDatas ==
    {Str(CategoryText(c)) : c \in Categories \cup {"WEB"}}
    \cup {Str(CategoryText("MACRO") \o IdText), Null}

\* The n-th template of container 1: templateData, optionally a gallery
\* reference and optionally a fingerprint (the empty text: no such field).
Template(n, data, gallery, fp) ==
    Dict(<<K_name, K_templateId, K_containerId, K_templateData>>
            \o (IF gallery THEN <<K_galleryReference>> ELSE <<>>)
            \o (IF fp # <<>> THEN <<K_fingerprint>> ELSE <<>>),
         <<Str(<<"T", n>>), Str(<<n>>), Str(<<"1">>), data>>
            \o (IF gallery
                THEN <<Dict(<<K_galleryTemplateId>>, <<Str(<<"G", n>>)>>)>>
                ELSE <<>>)
            \o (IF fp # <<>> THEN <<Str(fp)>> ELSE <<>>))

\* The types a component can carry: the standard identifiers of the two
\* templates, the gallery alias of the first and the id of templateData.
ConsumerTypes ==
    << <<"cvt_", "1", "_", "1">>, <<"cvt_", "1", "_", "2">>,
       <<"cvt_", "G", "1">>, <<"cvt_", "temp">> >>
ConsumerKinds == <<"variable", "tag", "client">>

\* The i-th candidate component: kind and type.
ConsumerKind(i) == ConsumerKinds[((i - 1) \div Len(ConsumerTypes)) + 1]
ConsumerType(i) == ConsumerTypes[((i - 1) % Len(ConsumerTypes)) + 1]
NumConsumers == Len(ConsumerKinds) * Len(ConsumerTypes)

\* The chosen candidates of one kind, as component objects carrying the
\* identifier key of their kind.
Components(S, kind, K_id) ==
    LET Chosen(i) == i \in S /\ ConsumerKind(i) = kind
        picked == SelectSeq([i \in 1..NumConsumers |-> i], Chosen)
    IN  [j \in 1..Len(picked) |->
            Dict(<<K_name, K_id, K_type>>,
                 <<Str(<<kind>> \o ConsumerType(picked[j])),
                   Str(<<"id_">> \o ConsumerType(picked[j])),
                   Str(ConsumerType(picked[j]))>>)]

TemplateInit ==
    /\ \E d1 \in TemplateDatas, d2 \in TemplateDatas :
       \E g1 \in BOOLEAN, g2 \in BOOLEAN :
       \E f1 \in {<<>>, <<"f1">>}, f2 \in {<<>>, <<"f1">>, <<"f2">>} :
          custom_templates = <<Template("1", d1, g1, f1), Template("2", d2, g2, f2)>>
    /\ \E S \in {X \in SUBSET (1..NumConsumers) : Cardinality(X) <= MaxConsumers} :
          /\ variables = Components(S, "variable", K_variableId)
          /\ tags = Components(S, "tag", K_tagId)
          /\ clients = Components(S, "client", K_clientId)
    /\ triggers = <<>>
    /\ transformations = <<>>
    /\ include_paused_tags = TRUE
    /\ gtm_data = Document(variables, tags, triggers, transformations,
                           clients, custom_templates)
    /\ pc = "templates"
    /\ unused_variables = <<>>
    /\ usage_details = EmptyMap
    /\ usage_counts = EmptyMap
    /\ start = <<"A">>
    /\ set_order = Ascending
    /\ stack = <<>>
    /\ result = EmptyMap
    /\ duplicate_variables = EmptyMap
    /\ unused_custom_templates = <<>>
    /\ trigger_impact = EmptyMap
    /\ tag_impact = EmptyMap
    /\ unknown_tag_types = {}
    /\ unknown_variable_types = {}
    /\ ScannerIdle
    /\ report = EmptyMap

TemplateNext == FindUnusedCustomTemplates

TemplateSpec == TemplateInit /\ [][TemplateNext]_vars

\* The list of the first run is held by its caller, as the report holds it
\* under 'unused_custom_templates', and a second analyzer is constructed on
\* the same document with the other value of include_paused_tags.
ConstructWithOtherPolicy ==
    /\ pc = "templates_done"
    /\ DOMAIN report = {}
    /\ report' = [unused_custom_templates |-> unused_custom_templates]
    /\ include_paused_tags' = ~include_paused_tags
    /\ unused_custom_templates' = <<>>
    /\ pc' = "templates"
    /\ UNCHANGED <<gtm_data, variables, tags, triggers, transformations,
                   clients, custom_templates>>
    /\ UNCHANGED <<scanner, index_out, resolver, duplicate_variables,
                   trigger_impact, tag_impact, unknown_tag_types,
                   unknown_variable_types>>

\* The component with the key 'paused' set.
AsPaused(component) ==
    Dict(component.keys \o <<K_paused>>, component.items \o <<Bool(TRUE)>>)

\* The containers of the two runs: two templates, the first one with or
\* without a gallery reference, their fingerprints missing or equal, the
\* components of the template detection, each tag paused or not, and either
\* value of the flag for the first run.
PolicyInit ==
    /\ \E d1 \in TemplateDatas, d2 \in TemplateDatas :
       \E g1 \in BOOLEAN :
       \E f1 \in {<<>>, <<"f1">>}, f2 \in {<<>>, <<"f1">>} :
          custom_templates = <<Template("1", d1, g1, f1), Template("2", d2, FALSE, f2)>>
    /\ \E S \in {X \in SUBSET (1..NumConsumers) : Cardinality(X) <= MaxConsumers} :
          /\ variables = Components(S, "variable", K_variableId)
          /\ \E paused \in SUBSET (1..Len(Components(S, "tag", K_tagId))) :
                tags = [j \in 1..Len(Components(S, "tag", K_tagId)) |->
                           IF j \in paused
                           THEN AsPaused(Components(S, "tag", K_tagId)[j])
                           ELSE Components(S, "tag", K_tagId)[j]]
          /\ clients = Components(S, "client", K_clientId)
    /\ triggers = <<>>
    /\ transformations = <<>>
    /\ include_paused_tags \in BOOLEAN
    /\ gtm_data = Document(variables, tags, triggers, transformations,
                           clients, custom_templates)
    /\ pc = "templates"
    /\ unused_variables = <<>>
    /\ usage_details = EmptyMap
    /\ usage_counts = EmptyMap
    /\ start = <<"A">>
    /\ set_order = Ascending
    /\ stack = <<>>
    /\ result = EmptyMap
    /\ duplicate_variables = EmptyMap
    /\ unused_custom_templates = <<>>
    /\ trigger_impact = EmptyMap
    /\ tag_impact = EmptyMap
    /\ unknown_tag_types = {}
    /\ unknown_variable_types = {}
    /\ ScannerIdle
    /\ report = EmptyMap

PolicyNext == FindUnusedCustomTemplates \/ ConstructWithOtherPolicy

PolicySpec == PolicyInit /\ [][PolicyNext]_vars

(***************************************************************************)
(* The run on a malformed document: the constructor, then                  *)
(* generate_detailed_report and the two impact analyses, as main calls     *)
(* them.                                                                   *)
(***************************************************************************)
\* for x in self.<key> raises TypeError: the value is neither a list nor a
\* mapping.
NotIterable(key) == Held(key).kind \notin {"list", "dict"}

\* The loop yields an element that is no mapping (a key of a mapping):
\* element.get raises AttributeError, element['name'] raises TypeError.
YieldsNoMapping(key) ==
    ~NotIterable(key)
    /\ \E i \in 1..Len(Elements(key)) : Elements(key)[i].kind # "dict"

\* The loop yields an element that is no mapping and holds a reference:
\* the scan of a component passes, the component.get that follows raises.
YieldsReference(key) ==
    ~NotIterable(key)
    /\ \E i \in 1..Len(Elements(key)) :
          /\ Elements(key)[i].kind # "dict"
          /\ get_variable_references_in_object(Elements(key)[i]) # {}

\* A loop over self.<key> raises: always when the value cannot be iterated,
\* and for an element that is no mapping when the body reads the element
\* (element_read) or finds a reference in it.
raises_in_loop(key, element_read) ==
    \/ NotIterable(key)
    \/ element_read /\ YieldsNoMapping(key)
    \/ YieldsReference(key)

\* generate_detailed_report raises: in find_unused_variables,
\* find_duplicate_variables, find_unused_custom_templates,
\* get_variable_usage_details or get_variable_usage_counts.
report_raises ==
    \/ raises_in_loop(<<"variable">>, TRUE)
    \/ raises_in_loop(<<"tag">>, TRUE)
    \/ raises_in_loop(<<"trigger">>, FALSE)
    \/ raises_in_loop(<<"transformation">>, FALSE)
    \/ raises_in_loop(<<"client">>, TRUE)
    \/ raises_in_loop(<<"customTemplate">>, TRUE)

\* self.variables = ..., one assignment per collection.
Construct ==
    /\ pc = "document"
    /\ variables' = Elements(<<"variable">>)
    /\ tags' = Elements(<<"tag">>)
    /\ triggers' = Elements(<<"trigger">>)
    /\ transformations' = Elements(<<"transformation">>)
    /\ clients' = Elements(<<"client">>)
    /\ custom_templates' = Elements(<<"customTemplate">>)
    /\ pc' = "constructed"
    /\ UNCHANGED <<scanner, report, gtm_data, include_paused_tags, index_out, resolver, reports>>

\* unused_var['usage_details'] = usage_details[var_name]
WithUsageDetails(unused, details) ==
    [i \in 1..Len(unused) |->
        IF unused[i].name \in DOMAIN details
        THEN [usage_details |-> details[unused[i].name]] @@ unused[i]
        ELSE unused[i]]

\* report['unknown_types'] as generate_detailed_report builds it: the sorted
\* lists of the elements that the sets hold at that moment, each held here
\* as the set of its elements.
UnknownTypes ==
    [tag_types |-> unknown_tag_types, variable_types |-> unknown_variable_types]

GenerateDetailedReport ==
    /\ pc = "constructed"
    /\ IF report_raises \/ details_key_error \/ counts_key_error
       THEN /\ pc' = "error"
            /\ UNCHANGED <<index_out, duplicate_variables, unused_custom_templates,
                           report>>
       ELSE /\ pc' = "analysing"
            /\ report' = [unknown_types |-> UnknownTypes]
            /\ unused_variables' =
                  WithUsageDetails(find_unused_variables, get_variable_usage_details)
            /\ duplicate_variables' = find_duplicate_variables
            /\ unused_custom_templates' = find_unused_custom_templates
            /\ usage_details' = get_variable_usage_details
            /\ usage_counts' = get_variable_usage_counts
    /\ UNCHANGED <<scanner, container, resolver, impact>>

(***************************************************************************)
(* Re-evaluation impact estimator: analyze_trigger_evaluation_impact and   *)
(* analyze_tag_evaluation_impact.                                          *)
(***************************************************************************)
K_triggerId       == <<"triggerId">>
K_firingTriggerId == <<"firingTriggerId">>
K_transformation  == <<"transformation">>
K_transformations == <<"transformations">>

\* get_all_variable_references_recursive as a function of its arguments:
\* all_references is one call, references_from its loop over direct_refs,
\* every nested call starting from a copy of the caller's visited set.
RECURSIVE all_references(_, _)
RECURSIVE references_from(_, _)
all_references(var_name, visited) ==
    IF OnPath(var_name, visited) THEN EmptyMap
    ELSE IF ~HasVariable(var_name) THEN EmptyMap
    ELSE references_from(get_variable_references_in_object(FindVariable(var_name)),
                         visited \cup {var_name})

references_from(refs, visited) ==
    IF refs = {} THEN EmptyMap
    ELSE LET ref == CHOOSE r \in refs : TRUE
         IN  MergeNested(MergeNested(CountReference(EmptyMap, ref, visited),
                                     all_references(ref, visited)),
                         references_from(refs \ {ref}, visited))

\* type_names.get(k, default) for a table of <<key, name>> pairs.
InTable(table, k) == \E i \in 1..Len(table) : table[i][1] = k
TableGet(table, k, default) ==
    IF InTable(table, k)
    THEN table[CHOOSE i \in 1..Len(table) : table[i][1] = k][2]
    ELSE default

VariableTypeNames ==
    << <<<<"v">>, <<"Data Layer Variable">>>>, <<<<"k">>, <<"Cookie">>>>,
       <<<<"u">>, <<"URL">>>>, <<<<"f">>, <<"Referrer">>>>,
       <<<<"e">>, <<"Event">>>>, <<<<"j">>, <<"JavaScript Variable">>>>,
       <<<<"jsm">>, <<"Custom JavaScript">>>>, <<<<"d">>, <<"DOM Element">>>>,
       <<<<"sgtmk">>, <<"Request - Cookie Value">>>> >>

TagTypeNames ==
    << <<<<"html">>, <<"Custom HTML">>>>, <<<<"img">>, <<"Custom Image">>>>,
       <<<<"ua">>, <<"Universal Analytics">>>>, <<<<"ga">>, <<"Google Analytics">>>>,
       <<<<"sgtmadsct">>, <<"Google Ads Conversion Tracking">>>>,
       <<<<"sgtmgaaw">>, <<"Google Analytics: GA4">>>> >>

\* get_variable_type_name: the display name, and whether the type is added
\* to unknown_variable_types.
get_variable_type_name(var_type) ==
    IF StartsWithCvt(var_type) THEN <<"Custom Template Variable">>
    ELSE TableGet(VariableTypeNames, var_type, <<"Unknown (">> \o var_type \o <<")">>)
variable_type_unknown(var_type) ==
    ~StartsWithCvt(var_type) /\ ~InTable(VariableTypeNames, var_type) /\ var_type # <<>>

\* get_tag_type_name: the display name, and whether the type is added to
\* unknown_tag_types.
get_tag_type_name(tag_type) ==
    IF StartsWithCvt(tag_type) THEN <<"Custom Template Tag">>
    ELSE TableGet(TagTypeNames, tag_type, <<"Unknown Tag (">> \o tag_type \o <<")">>)
tag_type_unknown(tag_type) ==
    ~StartsWithCvt(tag_type) /\ ~InTable(TagTypeNames, tag_type) /\ tag_type # <<>>

\* The names of gtm_internal_vars and of builtin_name_map.
InternalNames ==
    {<<"_event">>, <<"_triggers_fired">>, <<"_tags_fired">>, <<"_container">>,
     <<"_html_id">>, <<"_debug_mode">>, <<"_random">>, <<"_container_version">>}
BuiltinNames ==
    {<<"Event Name">>, <<"Page URL">>, <<"Page Hostname">>,
     <<"Page Path">>, <<"Referrer">>, <<"Click Element">>,
     <<"Click Classes">>, <<"Click ID">>, <<"Click URL">>,
     <<"Click Text">>, <<"Container ID">>, <<"Container Version">>,
     <<"Debug Mode">>, <<"Random Number">>, <<"HTML ID">>,
     <<"Environment Name">>, <<"Client Name">>, <<"Client ID">>,
     <<"IP Address">>, <<"User Agent">>, <<"Event">>,
     <<"Error Message">>, <<"Error Line">>, <<"Error URL">>,
     <<"Form Element">>, <<"Form Classes">>, <<"Form ID">>,
     <<"Form Target">>, <<"Form URL">>, <<"Form Text">>,
     <<"History Source">>, <<"New History Fragment">>, <<"New History State">>,
     <<"New History URL">>, <<"Old History Fragment">>, <<"Old History State">>,
     <<"Old History URL">>, <<"Video Current Time">>, <<"Video Duration">>,
     <<"Video Percent">>, <<"Video Provider">>, <<"Video Status">>,
     <<"Video Title">>, <<"Video URL">>, <<"Video Visible">>,
     <<"Scroll Depth Threshold">>, <<"Scroll Depth Units">>, <<"Scroll Direction">>,
     <<"Element Visibility Ratio">>, <<"Element Visibility Time">>, <<"Element Visibility First Time">>,
     <<"Element Visibility Recent Time">>, <<"Percent Visible">>, <<"On Screen Duration">>}

\* var_name.startswith('_')
StartsWithUnderscore(var_name) ==
    Len(var_name) >= 1 /\ (var_name[1] = "_" \/ <<var_name[1]>> \in InternalNames)

get_variable_type_for_name(var_name) ==
    IF HasVariable(var_name) /\ Truthy(FindVariable(var_name))
    THEN get_variable_type_name(Get(FindVariable(var_name), K_type, Str(<<"Unknown">>)).str)
    ELSE IF var_name \in InternalNames \/ StartsWithUnderscore(var_name)
    THEN <<"GTM Internal Variable">>
    ELSE IF var_name \in BuiltinNames THEN <<"Built-in Variable">>
    ELSE <<"Unknown">>

\* The variable types that looking up the names of S adds to
\* unknown_variable_types.
UnknownVariableTypes(S) ==
    {Get(FindVariable(n), K_type, Str(<<"Unknown">>)).str :
        n \in {m \in S : /\ HasVariable(m)
                         /\ Truthy(FindVariable(m))
                         /\ variable_type_unknown(
                                Get(FindVariable(m), K_type, Str(<<"Unknown">>)).str)}}

\* The sum of the counts of a mapping over the keys S, and over all keys.
RECURSIVE SumOver(_, _)
SumOver(m, S) ==
    IF S = {} THEN 0
    ELSE LET k == CHOOSE x \in S : TRUE IN m[k] + SumOver(m, S \ {k})
SumCounts(m) == SumOver(m, DOMAIN m)

\* The sum of a sequence of count mappings.
RECURSIVE SumMaps(_)
SumMaps(ms) == IF ms = <<>> THEN EmptyMap ELSE AddCounts(Head(ms), SumMaps(Tail(ms)))

\* Mutant: evaluations_by_type[var_type] += 1 for every name.
ByTypeNames(all_vars) ==
    [t \in {get_variable_type_for_name(n) : n \in DOMAIN all_vars} |->
        Cardinality({n \in DOMAIN all_vars : get_variable_type_for_name(n) = t})]

\* evaluations_by_type[var_type] += count, over the items of all_variables.
ByType(all_vars) ==
    [t \in {get_variable_type_for_name(n) : n \in DOMAIN all_vars} |->
        SumOver(all_vars, {n \in DOMAIN all_vars : get_variable_type_for_name(n) = t})]

\* Mutant: the direct reference itself is not counted.
all_variables_nested_only(S) ==
    IF S = {} THEN EmptyMap
    ELSE SumMaps([i \in 1..Cardinality(S) |-> all_references(SetToSeq(S)[i], {})])

\* all_variables of a component with the direct references S: 1 for each
\* name of S plus the counts of the resolver started at it.
all_variables(S) ==
    IF S = {} THEN EmptyMap
    ELSE SumMaps([i \in 1..Cardinality(S) |->
                    MergeNested(CountReference(EmptyMap, SetToSeq(S)[i], {}),
                                all_references(SetToSeq(S)[i], {}))])

\* if tag.get('paused', False): continue, in the loop that fills
\* trigger_to_tags.
trigger_tag_skipped(tag) == IsPaused(tag)

\* tag.get('firingTriggerId', [])
firing_triggers(tag) == Get(tag, K_firingTriggerId, List(<<>>)).items

\* trigger_to_tags[trigger_id] after the first n tags, the empty list when
\* trigger_id is no key.
RECURSIVE trigger_to_tags(_, _)
trigger_to_tags(trigger_id, n) ==
    IF n = 0 THEN <<>>
    ELSE trigger_to_tags(trigger_id, n - 1)
         \o (IF trigger_tag_skipped(tags[n]) THEN <<>>
             ELSE [j \in 1..Cardinality({i \in 1..Len(firing_triggers(tags[n])) :
                                            firing_triggers(tags[n])[i] = trigger_id})
                      |-> tags[n]])

\* Mutant: every trigger is analysed.
trigger_attached_always(trigger) == TRUE

\* trigger_id in trigger_to_tags
trigger_attached(trigger) ==
    trigger_to_tags(Get(trigger, K_triggerId, Null), Len(tags)) # <<>>

attached_tags(trigger) ==
    LET ts == trigger_to_tags(Get(trigger, K_triggerId, Null), Len(tags))
    IN  [j \in 1..Len(ts) |->
            [name |-> Get(ts[j], K_name, Str(<<"Unnamed Tag">>)),
             type |-> get_tag_type_name(Get(ts[j], K_type, Str(<<"Unknown">>)).str)]]

\* The number of entries of each type in a list of records with a type.
TypeCounts(entries) ==
    [t \in {entries[j].type : j \in 1..Len(entries)} |->
        Cardinality({j \in 1..Len(entries) : entries[j].type = t})]

trigger_detail(trigger) ==
    [name |-> Get(trigger, K_name, Str(<<"Unnamed Trigger">>)),
     type |-> Get(trigger, K_type, Str(<<"Unknown">>)),
     direct_variables |-> get_variable_references_in_object(trigger),
     all_variables |-> all_variables(get_variable_references_in_object(trigger)),
     attached_tags |-> attached_tags(trigger)]

\* The triggers that pass the test, in the order of the container.
AnalysedTriggers == SelectSeq(triggers, trigger_attached)

analyze_trigger_evaluation_impact ==
    LET details == [i \in 1..Len(AnalysedTriggers) |-> trigger_detail(AnalysedTriggers[i])]
    IN  [total_evaluations |->
            SumSeq([i \in 1..Len(details) |-> SumCounts(details[i].all_variables)]),
         evaluations_by_type |->
            SumMaps([i \in 1..Len(details) |-> ByType(details[i].all_variables)]),
         evaluations_by_variable |->
            SumMaps([i \in 1..Len(details) |-> details[i].all_variables]),
         triggers_analyzed |-> Len(AnalysedTriggers),
         tag_type_breakdown |->
            SumMaps([i \in 1..Len(details) |-> TypeCounts(details[i].attached_tags)]),
         trigger_details |-> details]

\* The tag types and variable types that the trigger analysis looks up and
\* does not find in the tables.
TriggerUnknownTagTypes ==
    {Get(tag, K_type, Str(<<"Unknown">>)).str :
        tag \in {t \in Range(tags) :
                    /\ \E i \in 1..Len(AnalysedTriggers) :
                          t \in Range(trigger_to_tags(
                                  Get(AnalysedTriggers[i], K_triggerId, Null), Len(tags)))
                    /\ tag_type_unknown(Get(t, K_type, Str(<<"Unknown">>)).str)}}

\* The lookup of a variable by name raises: "for v in self.variables" when
\* the value cannot be iterated, v['name'] when v is no mapping.
lookup_raises == NotIterable(<<"variable">>) \/ YieldsNoMapping(<<"variable">>)

\* analyze_trigger_evaluation_impact raises: in one of its two loops, or in
\* the lookup of a name that an analysed trigger refers to.
trigger_impact_raises ==
    \/ raises_in_loop(<<"tag">>, TRUE)
    \/ raises_in_loop(<<"trigger">>, TRUE)
    \/ /\ \E i \in 1..Len(AnalysedTriggers) :
              get_variable_references_in_object(AnalysedTriggers[i]) # {}
       /\ lookup_raises

AnalyzeTriggerEvaluationImpact ==
    /\ pc = "analysing"
    /\ IF trigger_impact_raises
       THEN /\ pc' = "error"
            /\ UNCHANGED <<trigger_impact, unknown_tag_types, unknown_variable_types>>
       ELSE /\ pc' = "trigger_impact"
            /\ trigger_impact' = analyze_trigger_evaluation_impact
            /\ unknown_tag_types' = unknown_tag_types \cup TriggerUnknownTagTypes
            /\ unknown_variable_types' =
                  unknown_variable_types
                  \cup UnknownVariableTypes(
                          DOMAIN analyze_trigger_evaluation_impact.evaluations_by_variable)
    /\ UNCHANGED <<scanner, report, container, index_out, resolver, duplicate_variables,
                   unused_custom_templates, tag_impact>>

\* if tag.get('paused', False): continue, in the loop over the tags of the
\* tag analysis.
impact_tag_skipped(tag) == IsPaused(tag)

\* tag.get('type', '').split('_')[-1]
LastSegment(t) ==
    LET cut == {i \in 1..Len(t) : t[i] \in {"_", "cvt_"}}
    IN  IF cut = {} THEN t
        ELSE SubSeq(t, (CHOOSE i \in cut : \A j \in cut : j <= i) + 1, Len(t))

\* next((t for t in self.custom_templates if t.get('templateId') ==
\* template_id), None), Null for None.
TemplateOf(template_id) ==
    IF \E i \in 1..Len(custom_templates) :
            Get(custom_templates[i], K_templateId, Null) = Str(template_id)
    THEN custom_templates[CHOOSE i \in 1..Len(custom_templates) :
            /\ Get(custom_templates[i], K_templateId, Null) = Str(template_id)
            /\ \A j \in 1..(i - 1) :
                  Get(custom_templates[j], K_templateId, Null) # Str(template_id)]
    ELSE Null

\* The template of a custom-template tag, Null for any other tag.
tag_template(tag) ==
    IF StartsWithCvt(Get(tag, K_type, Str(<<>>)).str)
    THEN TemplateOf(LastSegment(Get(tag, K_type, Str(<<>>)).str))
    ELSE Null

\* The references found in the templateData of the template of the tag.
template_refs(tag) ==
    IF Truthy(tag_template(tag))
    THEN get_variable_references_in_value(Get(tag_template(tag), K_templateData, Str(<<>>)))
    ELSE {}

\* tag.get('transformation', tag.get('transformations', [])), the empty
\* list when the value is no list.
tag_transformations(tag) ==
    LET transformations_ == Get(tag, K_transformation,
                                Get(tag, K_transformations, List(<<>>)))
    IN  IF transformations_.kind = "list" THEN transformations_.items ELSE <<>>

tag_detail(tag) ==
    LET direct == template_refs(tag)
                  \cup get_variable_references_in_object(tag)
                  \cup UNION {get_variable_references_in_object(tag_transformations(tag)[i]) :
                                 i \in 1..Len(tag_transformations(tag))}
    IN  [name |-> Get(tag, K_name, Str(<<"Unnamed Tag">>)),
         type |-> get_tag_type_name(Get(tag, K_type, Str(<<"Unknown">>)).str),
         direct_variables |-> direct,
         all_variables |-> all_variables(direct),
         transformations |->
            [i \in 1..Len(tag_transformations(tag)) |->
                [type |-> Get(tag_transformations(tag)[i], K_type, Str(<<"Unknown">>)),
                 variables |-> get_variable_references_in_object(tag_transformations(tag)[i])]],
         custom_template_info |->
            IF Truthy(tag_template(tag))
            THEN [name |-> Get(tag_template(tag), K_name, Str(<<"Unknown Template">>)),
                  template_id |-> LastSegment(Get(tag, K_type, Str(<<>>)).str)]
            ELSE Null]

\* The tags that pass the test, in the order of the container.
AnalysedTags ==
    LET Kept(tag) == ~impact_tag_skipped(tag) IN SelectSeq(tags, Kept)

\* tag_type_statistics of the details.
TagTypeStatistics(details) ==
    [t \in {details[i].type : i \in 1..Len(details)} |->
        LET of_type == {i \in 1..Len(details) : details[i].type = t}
            used == UNION {DOMAIN details[i].all_variables : i \in of_type}
        IN  [count |-> Cardinality(of_type),
             total_evaluations |->
                SumSeq([j \in 1..Len(details) |->
                           IF j \in of_type THEN SumCounts(details[j].all_variables) ELSE 0]),
             variables_used |-> used,
             unique_variables |-> Cardinality(used)]]

analyze_tag_evaluation_impact ==
    LET details == [i \in 1..Len(AnalysedTags) |-> tag_detail(AnalysedTags[i])]
    IN  [total_evaluations |->
            SumSeq([i \in 1..Len(details) |-> SumCounts(details[i].all_variables)]),
         evaluations_by_type |->
            SumMaps([i \in 1..Len(details) |-> ByType(details[i].all_variables)]),
         evaluations_by_variable |->
            SumMaps([i \in 1..Len(details) |-> details[i].all_variables]),
         tags_analyzed |-> Len(AnalysedTags),
         tag_type_statistics |-> TagTypeStatistics(details),
         tag_details |-> details,
         transformations_processed |->
            SumSeq([i \in 1..Len(details) |-> Len(details[i].transformations)]),
         custom_templates_processed |->
            Cardinality({i \in 1..Len(AnalysedTags) :
                            StartsWithCvt(Get(AnalysedTags[i], K_type, Str(<<>>)).str)})]

\* analyze_tag_evaluation_impact raises: in its loop over the tags, in the
\* search for the template of a custom-template tag, in trans.get of an
\* element of a transformation list that is no mapping, or in the lookup of
\* a name that an analysed tag refers to.
tag_impact_raises ==
    \/ raises_in_loop(<<"tag">>, TRUE)
    \/ /\ \E i \in 1..Len(AnalysedTags) :
              StartsWithCvt(Get(AnalysedTags[i], K_type, Str(<<>>)).str)
       /\ raises_in_loop(<<"customTemplate">>, TRUE)
    \/ \E i \in 1..Len(AnalysedTags) :
          \E j \in 1..Len(tag_transformations(AnalysedTags[i])) :
              tag_transformations(AnalysedTags[i])[j].kind # "dict"
    \/ /\ \E i \in 1..Len(AnalysedTags) : tag_detail(AnalysedTags[i]).direct_variables # {}
       /\ lookup_raises

AnalyzeTagEvaluationImpact ==
    /\ pc = "trigger_impact"
    /\ IF tag_impact_raises
       THEN /\ pc' = "error"
            /\ UNCHANGED <<tag_impact, unknown_tag_types, unknown_variable_types>>
       ELSE /\ pc' = "tag_impact"
            /\ tag_impact' = analyze_tag_evaluation_impact
            /\ unknown_tag_types' =
                  unknown_tag_types
                  \cup {Get(tag, K_type, Str(<<"Unknown">>)).str :
                          tag \in {t \in Range(AnalysedTags) :
                                      tag_type_unknown(Get(t, K_type, Str(<<"Unknown">>)).str)}}
            /\ unknown_variable_types' =
                  unknown_variable_types
                  \cup UnknownVariableTypes(
                          DOMAIN analyze_tag_evaluation_impact.evaluations_by_variable)
    /\ UNCHANGED <<scanner, report, container, index_out, resolver, duplicate_variables,
                   unused_custom_templates, trigger_impact>>

\* main after the analyses: report['trigger_evaluation_impact'] =
\* trigger_impact, report['tag_evaluation_impact'] = tag_impact, and
\* json.dump(report, f).  The print functions main calls between the steps
\* write nothing to the report; they only add to the sets of unknown types.
SaveReport ==
    /\ pc = "tag_impact"
    /\ report' = [trigger_evaluation_impact |-> trigger_impact,
                  tag_evaluation_impact |-> tag_impact] @@ report
    /\ pc' = "saved"
    /\ UNCHANGED <<scanner, container, index_out, resolver, reports>>

\* The containers of the impact estimator: variables A and B, triggers G1
\* and G2, tags T1 and T2 and one template, with at most MaxChoices of the
\* following made: a reference from one to another, a paused tag, a firing
\* trigger of a tag, a type, a tag-level transformation list.
MaxChoices == 3

ImpactChoices ==
    {"A:B", "B:A", "B:Z", "B type", "G1:A", "G1:B", "G2:B", "G2:_event",
     "T1 paused", "T2 paused", "T1 fires 1", "T1 fires 2", "T2 fires 2",
     "T1:A", "T2:B", "T1 template", "T2 type", "T1 transformation", "template:A"}

\* The texts of the references chosen in C among the pairs <<choice, name>>.
ChosenTexts(C, pairs) ==
    LET Chosen(pair) == pair[1] \in C
        kept == SelectSeq(pairs, Chosen)
    IN  [i \in 1..Len(kept) |-> RefText(kept[i][2])]

\* A type that is in none of the tables.
TypeOther == <<"zz">>

ImpactTrigger(name, id, texts) ==
    Dict(<<K_name, K_triggerId, K_type, K_list>>,
         <<Str(name), Str(id), Str(<<"pageview">>),
           List(<<Dict(<<K_map>>, <<ParameterList(texts)>>)>>)>>)

\* A Tag with its firing triggers; 'paused' and 'transformation' are there
\* only when chosen.
ImpactTag(name, type, paused, firing, texts, transformation_texts) ==
    Dict(<<K_name, K_type, K_firingTriggerId, K_parameter>>
            \o (IF paused THEN <<K_paused>> ELSE <<>>)
            \o (IF transformation_texts # <<>> THEN <<K_transformation>> ELSE <<>>),
         <<Str(name), Str(type),
           List([i \in 1..Len(firing) |-> Str(firing[i])]),
           ParameterList(texts)>>
            \o (IF paused THEN <<Bool(TRUE)>> ELSE <<>>)
            \o (IF transformation_texts # <<>>
                THEN <<List(<<Plain(<<"X">>, <<"Unknown">>, transformation_texts)>>)>>
                ELSE <<>>))

ImpactContainer ==
    /\ \E C \in {S \in SUBSET ImpactChoices : Cardinality(S) <= MaxChoices} :
          /\ variables =
                <<Variable(<<"A">>, TypeV, ChosenTexts(C, <<<<"A:B", <<"B">>>>>>)),
                  Variable(<<"B">>, IF "B type" \in C THEN TypeOther ELSE TypeV,
                           ChosenTexts(C, <<<<"B:A", <<"A">>>>, <<"B:Z", Unresolvable>>>>))>>
          /\ triggers =
                <<ImpactTrigger(<<"G1">>, <<"1">>,
                                ChosenTexts(C, <<<<"G1:A", <<"A">>>>, <<"G1:B", <<"B">>>>>>)),
                  ImpactTrigger(<<"G2">>, <<"2">>,
                                ChosenTexts(C, <<<<"G2:B", <<"B">>>>,
                                                 <<"G2:_event", <<"_event">>>>>>))>>
          /\ tags =
                <<ImpactTag(<<"T1">>, IF "T1 template" \in C THEN TypeCvt ELSE <<"html">>,
                            "T1 paused" \in C,
                            (IF "T1 fires 1" \in C THEN <<<<"1">>>> ELSE <<>>)
                               \o (IF "T1 fires 2" \in C THEN <<<<"2">>>> ELSE <<>>),
                            ChosenTexts(C, <<<<"T1:A", <<"A">>>>>>),
                            ChosenTexts(C, <<<<"T1 transformation", <<"B">>>>>>)),
                  ImpactTag(<<"T2">>, IF "T2 type" \in C THEN TypeOther ELSE <<"html">>,
                            "T2 paused" \in C,
                            IF "T2 fires 2" \in C THEN <<<<"2">>>> ELSE <<>>,
                            ChosenTexts(C, <<<<"T2:B", <<"B">>>>>>),
                            <<>>)>>
          /\ custom_templates =
                <<Dict(<<K_name, K_templateId, K_templateData>>,
                       <<Str(<<"T">>), Str(<<"2">>),
                         Str(IF "template:A" \in C THEN RefText(<<"A">>) ELSE <<>>)>>)>>
    /\ transformations = <<>>
    /\ clients = <<>>
    /\ include_paused_tags \in BOOLEAN
    /\ gtm_data = Document(variables, tags, triggers, transformations,
                           clients, custom_templates)

\* Nothing has been computed yet.
NothingComputed ==
    /\ unused_variables = <<>>
    /\ usage_details = EmptyMap
    /\ usage_counts = EmptyMap
    /\ start = <<"A">>
    /\ set_order = Ascending
    /\ stack = <<>>
    /\ result = EmptyMap
    /\ duplicate_variables = EmptyMap
    /\ unused_custom_templates = <<>>
    /\ trigger_impact = EmptyMap
    /\ tag_impact = EmptyMap
    /\ unknown_tag_types = {}
    /\ unknown_variable_types = {}
    /\ ScannerIdle

\* The analyzer after generate_detailed_report, its results not held.
ImpactInit ==
    /\ ImpactContainer
    /\ pc = "analysing"
    /\ NothingComputed
    /\ report = [unknown_types |-> UnknownTypes]

ImpactNext == AnalyzeTriggerEvaluationImpact \/ AnalyzeTagEvaluationImpact

ImpactSpec == ImpactInit /\ [][ImpactNext]_vars

\* The malformed documents: one without containerVersion, and those whose
\* containerVersion holds, under each collection key, nothing, a list of one
\* component or, under at most MaxMalformed keys, a value that is no list.
MaxMalformed == 1

\* The values that are no list: null, the empty mapping, a mapping.
NonLists == {Null, Dict(<<>>, <<>>), Dict(<<<<"a">>>>, <<Str(<<"1">>)>>)}

\* The component of the list held under a key.
ComponentFor(key) ==
    CASE key = <<"variable">> -> Variable(<<"A">>, TypeV, <<>>)
      [] key = <<"tag">> ->
            ImpactTag(<<"T1">>, <<"html">>, FALSE, <<<<"1">>>>, <<RefText(<<"A">>)>>, <<>>)
      [] key = <<"trigger">> -> ImpactTrigger(<<"G1">>, <<"1">>, <<RefText(<<"A">>)>>)
      [] key = <<"customTemplate">> ->
            Dict(<<K_name, K_templateId, K_templateData>>,
                 <<Str(<<"T">>), Str(<<"2">>), Str(<<>>)>>)
      [] OTHER -> Plain(<<"X">>, <<"Unknown">>, <<>>)

\* The containerVersion with the keys of L holding lists and those of the
\* domain of bad holding the values of bad.
ContainerVersion(L, bad) ==
    LET Present(key) == key \in L \cup DOMAIN bad
        present == SelectSeq(CollectionKeys, Present)
    IN  Dict(present,
             [i \in 1..Len(present) |->
                 IF present[i] \in DOMAIN bad THEN bad[present[i]]
                 ELSE List(<<ComponentFor(present[i])>>)])

MalformedDocuments ==
    {Dict(<<>>, <<>>)}
    \cup {Dict(<<K_containerVersion>>, <<ContainerVersion(L, bad)>>) :
            L \in SUBSET Range(CollectionKeys),
            bad \in UNION {[B -> NonLists] :
                             B \in {X \in SUBSET Range(CollectionKeys) :
                                       Cardinality(X) \in 1..MaxMalformed}}}

MalformedInit ==
    /\ gtm_data \in MalformedDocuments
    /\ variables = <<>>
    /\ tags = <<>>
    /\ triggers = <<>>
    /\ transformations = <<>>
    /\ clients = <<>>
    /\ custom_templates = <<>>
    /\ include_paused_tags \in BOOLEAN
    /\ pc = "document"
    /\ unused_variables = <<>>
    /\ usage_details = EmptyMap
    /\ usage_counts = EmptyMap
    /\ start = <<"A">>
    /\ set_order = Ascending
    /\ stack = <<>>
    /\ result = EmptyMap
    /\ duplicate_variables = EmptyMap
    /\ unused_custom_templates = <<>>
    /\ trigger_impact = EmptyMap
    /\ tag_impact = EmptyMap
    /\ unknown_tag_types = {}
    /\ unknown_variable_types = {}
    /\ ScannerIdle
    /\ report = EmptyMap

MalformedNext ==
    \/ Construct
    \/ GenerateDetailedReport
    \/ AnalyzeTriggerEvaluationImpact
    \/ AnalyzeTagEvaluationImpact
    \/ SaveReport

MalformedSpec == MalformedInit /\ [][MalformedNext]_vars

\* main on the containers of the impact estimator, from the constructed
\* analyzer to the saved report.
PipelineInit ==
    /\ ImpactContainer
    /\ pc = "constructed"
    /\ NothingComputed
    /\ report = EmptyMap

PipelineNext ==
    \/ GenerateDetailedReport
    \/ AnalyzeTriggerEvaluationImpact
    \/ AnalyzeTagEvaluationImpact
    \/ SaveReport

PipelineSpec == PipelineInit /\ [][PipelineNext]_vars

(***************************************************************************)
(* Calls of the scanner and of the counter on a value of their own:        *)
(* test_variable_detection calls the scanner on values that are part of no *)
(* container.                                                              *)
(***************************************************************************)
GetVariableReferencesInObject ==
    /\ pc = "scan"
    /\ scan_references' = get_variable_references_in_object(scan_obj)
    /\ pc' = "scanned"
    /\ UNCHANGED <<container, index_out, resolver, reports,
                   scan_obj, scan_var_name, scan_count, report>>

CountVariableOccurrencesInObject ==
    /\ pc = "scanned"
    /\ scan_count' = count_variable_occurrences_in_object(scan_obj, scan_var_name)
    /\ pc' = "counted"
    /\ UNCHANGED <<container, index_out, resolver, reports,
                   scan_obj, scan_var_name, scan_references, report>>

\* The texts are made of at most MaxPieces pieces: a brace, a letter, a
\* dot, a blank, or a whole token {{name}}.
MaxPieces == 3

ScanNames == {<<"A">>, <<"B">>, <<"A", "B">>, <<".">>}

Pieces ==
    {<<LB>>, <<RB>>, <<"A">>, <<"B">>, <<".">>, <<" ">>}
    \cup {RefText(n) : n \in ScanNames}

RECURSIVE ScanTexts(_)
ScanTexts(n) ==
    IF n = 0 THEN {<<>>}
    ELSE LET shorter == ScanTexts(n - 1)
         IN  shorter \cup {t \o q : t \in shorter, q \in Pieces}

\* The leaves of the nested values: a text of at most one piece, a number,
\* a boolean, null.
ScanLeaves == {Str(t) : t \in ScanTexts(1)} \cup {Num(1), Bool(TRUE), Null}

\* The values the scanner and the counter are called on: a text, a leaf, a
\* list of two leaves, a mapping of two leaves one of whose keys is itself
\* the text of a token, and a list in a mapping in a list.
ScanValues ==
    {Str(t) : t \in ScanTexts(MaxPieces)}
    \cup ScanLeaves
    \cup {List(<<x, y>>) : x \in ScanLeaves, y \in ScanLeaves}
    \cup {Dict(<<RefText(<<"B">>), <<"k">>>>, <<x, y>>) : x \in ScanLeaves, y \in ScanLeaves}
    \cup {List(<<Dict(<<RefText(<<"A">>)>>, <<List(<<x, y>>)>>), x>>) :
            x \in ScanLeaves, y \in ScanLeaves}

ScanInit ==
    /\ variables = <<>>
    /\ tags = <<>>
    /\ triggers = <<>>
    /\ transformations = <<>>
    /\ clients = <<>>
    /\ custom_templates = <<>>
    /\ include_paused_tags = TRUE
    /\ gtm_data = Document(variables, tags, triggers, transformations,
                           clients, custom_templates)
    /\ pc = "scan"
    /\ unused_variables = <<>>
    /\ usage_details = EmptyMap
    /\ usage_counts = EmptyMap
    /\ start = <<"A">>
    /\ set_order = Ascending
    /\ stack = <<>>
    /\ result = EmptyMap
    /\ duplicate_variables = EmptyMap
    /\ unused_custom_templates = <<>>
    /\ trigger_impact = EmptyMap
    /\ tag_impact = EmptyMap
    /\ unknown_tag_types = {}
    /\ unknown_variable_types = {}
    /\ scan_obj \in ScanValues
    /\ scan_var_name \in ScanNames
    /\ scan_references = {}
    /\ scan_count = 0
    /\ report = EmptyMap

ScanNext == GetVariableReferencesInObject \/ CountVariableOccurrencesInObject

ScanSpec == ScanInit /\ [][ScanNext]_vars

(***************************************************************************)
(* Properties of the resolver.                                             *)
(***************************************************************************)
A == <<"A">>
B == <<"B">>
C == <<"C">>
D == <<"D">>

\* The names a variable's definition mentions; none for an unknown name.
DirectRefs(n) ==
    IF HasVariable(n) THEN get_variable_references_in_object(FindVariable(n))
    ELSE {}

\* The number of reference paths from n to v that visit no name twice and
\* avoid the names in seen.
RECURSIVE SimplePaths(_, _, _)
SimplePaths(n, v, seen) ==
    IF n \in seen \/ ~HasVariable(n) THEN 0
    ELSE SumSeq([i \in 1..Cardinality(DirectRefs(n)) |->
            LET t == SetToSeq(DirectRefs(n))[i]
            IN  (IF t = v /\ t \notin seen \cup {n} THEN 1 ELSE 0)
                + SimplePaths(t, v, seen \cup {n})])

\* The number of reference chains n = x0 -> x1 -> ... -> xk = v, k >= 1,
\* whose x0 ... x(k-1) are pairwise distinct variables outside seen: the
\* last name may be any name, one on the chain included.
RECURSIVE Chains(_, _, _)
Chains(n, v, seen) ==
    IF n \in seen \/ ~HasVariable(n) THEN 0
    ELSE SumSeq([i \in 1..Cardinality(DirectRefs(n)) |->
            LET t == SetToSeq(DirectRefs(n))[i]
            IN  (IF t = v THEN 1 ELSE 0) + Chains(t, v, seen \cup {n})])

\* C1: every outermost call of the resolver returns, whatever the references
\* among the variables are (mutual references, longer cycles, self-references).
C1_ResolverTerminates == <>(pc = "resolved")

\* A returned call on a container where A and B mention each other and B
\* mentions itself.
C1_Witness ==
    /\ pc = "resolved"
    /\ start = A
    /\ B \in DirectRefs(A)
    /\ A \in DirectRefs(B)
    /\ B \in DirectRefs(B)
    /\ B \in DOMAIN result

\* C2 as stated: for A -> B -> A the mapping returned for start A holds B
\* with count 1 and no entry for A (the cycle edge contributes no count).
C2_CycleEdgeNotCounted ==
    (/\ pc = "resolved"
     /\ start = A
     /\ DirectRefs(A) = {B}
     /\ DirectRefs(B) = {A})
    => (DOMAIN result = {B} /\ result[B] = 1)

\* C2 amended: a call for a name already on the caller's path returns the
\* empty mapping without expanding anything, but the caller has counted the
\* reference once before calling; for A -> B -> A the mapping returned for
\* start A holds B with count 1 and A with count 1.
C2_CycleEdgeCountedOnce ==
    /\ \A i \in 2..Len(stack) :
          stack[i].var_name \in stack[i - 1].visited
          => /\ stack[i].pending = {}
             /\ stack[i].all_refs = EmptyMap
             /\ CountAt(stack[i - 1].all_refs, stack[i].var_name) >= 1
    /\ (/\ pc = "resolved"
        /\ start = A
        /\ DirectRefs(A) = {B}
        /\ DirectRefs(B) = {A})
       => (DOMAIN result = {A, B} /\ result[A] = 1 /\ result[B] = 1)

\* The call for start A on A -> B -> A has returned.
C2_Witness ==
    /\ pc = "resolved"
    /\ start = A
    /\ DirectRefs(A) = {B}
    /\ DirectRefs(B) = {A}
    /\ CountAt(result, A) = 1

\* C3: the visited set is scoped to the path: the count returned for a name
\* is at least the number of simple reference paths from the start to it, so
\* a name reached along two branches is counted and expanded on both; in the
\* diamond A -> B -> D, A -> C -> D the count of D is 2.
C3_PathScopedVisited ==
    pc = "resolved" =>
       /\ \A v \in VarNames \cup {Unresolvable} :
             CountAt(result, v) >= SimplePaths(start, v, {})
       /\ (/\ start = A
           /\ DirectRefs(A) = {B, C}
           /\ DirectRefs(B) = {D}
           /\ DirectRefs(C) = {D}
           /\ DirectRefs(D) = {})
          => (DOMAIN result = {B, C, D}
              /\ result[B] = 1 /\ result[C] = 1 /\ result[D] = 2)

\* The diamond has been resolved and D counted on both paths.
C3_Witness ==
    /\ pc = "resolved"
    /\ start = A
    /\ DirectRefs(A) = {B, C}
    /\ DirectRefs(B) = {D}
    /\ DirectRefs(C) = {D}
    /\ CountAt(result, D) = 2

\* C26: the count returned for a name v is the number of reference chains
\* from the start to v whose names before the last are pairwise distinct
\* variables; an edge counts 1 however often its text is written in the
\* definition, a name without a chain has no entry, and a start that is no
\* variable gives the empty mapping.
C26_CountsAreChains ==
    pc = "resolved" =>
        /\ \A v \in VarNames \cup {Unresolvable} \cup DOMAIN result :
              CountAt(result, v) = Chains(start, v, {})
        /\ \A v \in DOMAIN result : result[v] >= 1
        /\ ~HasVariable(start) => result = EmptyMap

\* C26 happens: A holds the text of B twice and B refers back to A and on to
\* C; the call for A has returned B, A and C with one chain each.
C26_Witness ==
    /\ pc = "resolved"
    /\ start = A
    /\ DirectRefs(A) = {B}
    /\ DirectRefs(B) = {A, C}
    /\ count_variable_occurrences_in_object(FindVariable(A), B) = 2
    /\ result = [v \in {A, B, C} |-> 1]

(***************************************************************************)
(* Properties of the usage index.                                          *)
(***************************************************************************)

\* The names listed by find_unused_variables.
UnusedNames == Range([i \in 1..Len(unused_variables) |-> unused_variables[i].name])

\* Every component of the container with its kind and its category key.
AllEntries == counts_components_to_check

\* A component takes part in the scans: every one but a paused tag when
\* paused tags are excluded.
TakesPart(e) ==
    ~(e.key = "tags" /\ IsPaused(e.component) /\ ~include_paused_tags)

\* Component e mentions the name n and is not the variable n itself.
UsesName(e, n) ==
    /\ n \in get_variable_references_in_object(e.component)
    /\ ~(e.key = "variables" /\ NameOf(e.component) = n)

\* The category a use by e belongs to.
CategoryOf(e) ==
    IF e.key = "variables" /\ StartsWithCvt(Get(e.component, K_type, Str(<<>>)).str)
    THEN "custom_templates"
    ELSE e.key

\* What the properties need of the components from the i-th on: whether the
\* component takes part, the names it uses, its category and the component.
RECURSIVE Profiles(_, _)
Profiles(es, i) ==
    IF i > Len(es) THEN <<>>
    ELSE <<[takes_part |-> TakesPart(es[i]),
            uses |-> {n \in get_variable_references_in_object(es[i].component) :
                         UsesName(es[i], n)},
            category |-> CategoryOf(es[i]),
            component |-> es[i].component]>>
         \o Profiles(es, i + 1)

\* The component with profile p takes part, uses n and belongs to category k.
IsUser(p, n, k) == p.takes_part /\ n \in p.uses /\ p.category = k

\* The components that are users of n in category k.
Users(ps, n, k) == {i \in 1..Len(ps) : IsUser(ps[i], n, k)}

\* No component is a user of n.
Unused(ps, n) == \A i \in 1..Len(ps) : ~(ps[i].takes_part /\ n \in ps[i].uses)

\* The occurrences of {{n}} in the users of n in category k.
RECURSIVE OccurrencesIn(_, _, _)
OccurrencesIn(ps, n, k) ==
    IF ps = <<>> THEN 0
    ELSE (IF IsUser(Head(ps), n, k)
          THEN count_variable_occurrences_in_object(Head(ps).component, n)
          ELSE 0)
         + OccurrencesIn(Tail(ps), n, k)

\* C4: a variable is listed by find_unused_variables exactly if
\* get_variable_usage_counts gives it total_references = 0.
C4_UnusedIffZeroReferences ==
    pc = "counted" =>
        \A n \in VariableNameSet :
            (n \in UnusedNames) <=> (usage_counts[n].total_references = 0)

\* Both scans have run on a container where, with paused tags excluded, A is
\* mentioned by a paused tag only and B by a component that takes part.
C4_Witness ==
    /\ pc = "counted"
    /\ ~include_paused_tags
    /\ \E i \in 1..Len(tags) :
          IsPaused(tags[i]) /\ A \in get_variable_references_in_object(tags[i])
    /\ A \in UnusedNames
    /\ B \notin UnusedNames

\* C5: a variable whose own definition mentions its name is never recorded
\* as a user of itself: its name is in none of its usage lists, and when no
\* other component that takes part mentions it, all its counts are 0 and it
\* is reported unused.
C5_SelfReferenceExcluded ==
    pc = "counted" =>
        LET ps == Profiles(AllEntries, 1)
        IN
        \A i \in 1..Len(variables) :
            LET n == NameOf(variables[i])
            IN  n \in get_variable_references_in_object(variables[i]) =>
                  /\ \A k \in CountKeySet :
                        n \notin Range(usage_counts[n].usage_components[k])
                  /\ \A k \in DetailKeySet : n \notin Range(usage_details[n][k])
                  /\ Unused(ps, n) =>
                        /\ usage_counts[n].total_references = 0
                        /\ \A k \in CountKeySet :
                              usage_counts[n].usage_locations[k] = 0
                        /\ usage_details[n].total_usage = 0
                        /\ n \in UnusedNames

\* The index has been built for a container where A mentions only itself
\* and nothing else mentions A.
C5_Witness ==
    /\ pc = "counted"
    /\ A \in get_variable_references_in_object(variables[1])
    /\ NameOf(variables[1]) = A
    /\ A \in UnusedNames
    /\ usage_counts[A].total_references = 0

\* The tags that mention n and take part.
CountedTags(n) ==
    {i \in 1..Len(tags) :
        /\ n \in get_variable_references_in_object(tags[i])
        /\ (include_paused_tags \/ ~IsPaused(tags[i]))}

\* C6: with include_paused_tags false no paused tag adds to a variable's
\* tags count, tag names or total_references; with it true a paused tag
\* counts like any other and is recorded with the suffix " (PAUSED)".  Of
\* two tags that mention a variable, one of them paused, 1 is counted with
\* the flag false and 2 with it true.
C6_PausedTagPolicy ==
    pc = "counted" =>
        LET ps == Profiles(AllEntries, 1)
        IN
        \A n \in VariableNameSet :
            /\ usage_counts[n].usage_locations["tags"] = Cardinality(CountedTags(n))
            /\ Range(usage_counts[n].usage_components["tags"])
                  = {IF IsPaused(tags[i]) THEN NameOf(tags[i]) \o PausedSuffix
                                          ELSE NameOf(tags[i]) : i \in CountedTags(n)}
            /\ (~include_paused_tags /\ Unused(ps, n))
                  => usage_counts[n].total_references = 0
            /\ (/\ Len(tags) = 2
                /\ n \in get_variable_references_in_object(tags[1])
                /\ n \in get_variable_references_in_object(tags[2])
                /\ IsPaused(tags[1]) # IsPaused(tags[2]))
               => usage_counts[n].usage_locations["tags"]
                     = IF include_paused_tags THEN 2 ELSE 1

\* Paused tags are excluded, both tags mention A, one of them is paused, and
\* one tag has been counted.
C6_Witness ==
    /\ pc = "counted"
    /\ ~include_paused_tags
    /\ A \in get_variable_references_in_object(tags[1])
    /\ A \in get_variable_references_in_object(tags[2])
    /\ IsPaused(tags[1])
    /\ ~IsPaused(tags[2])
    /\ usage_counts[A].usage_locations["tags"] = 1

\* C7 as stated: the count of a category is the sum, over the components of
\* the category that use the variable, of the Occurrence Counter's results.
C7_LocationsSumOccurrences ==
    pc = "counted" =>
        LET ps == Profiles(AllEntries, 1)
        IN  \A n \in VariableNameSet : \A k \in CountKeySet :
                usage_counts[n].usage_locations[k] = OccurrencesIn(ps, n, k)

\* C7 amended: the count of a category grows by 1 for each component of the
\* category that uses the variable, however often the component mentions
\* it; the Occurrence Counter's results are added to total_references.
C7_LocationsCountComponents ==
    pc = "counted" =>
        LET ps == Profiles(AllEntries, 1)
        IN  \A n \in VariableNameSet :
                /\ \A k \in CountKeySet :
                      usage_counts[n].usage_locations[k] = Cardinality(Users(ps, n, k))
                /\ usage_counts[n].total_references
                      = SumSeq([j \in 1..Len(CountKeys) |->
                                   OccurrencesIn(ps, n, CountKeys[j])])

\* A tag that mentions A twice has been counted: one use under tags, two
\* references in total.
C7_Witness ==
    /\ pc = "counted"
    /\ count_variable_occurrences_in_object(tags[1], A) = 2
    /\ ~IsPaused(tags[1])
    /\ usage_counts[A].usage_locations["tags"] = 1
    /\ usage_counts[A].total_references = 2

\* C8: minimum_reevaluations is the number of categories with a count above
\* 0, potential_reevaluations the sum of the six category counts.
C8_Reevaluations ==
    pc = "counted" =>
        \A n \in VariableNameSet :
            LET locations == usage_counts[n].usage_locations
            IN  /\ usage_counts[n].minimum_reevaluations
                      = Cardinality({k \in CountKeySet : locations[k] > 0})
                /\ usage_counts[n].potential_reevaluations
                      = SumSeq([j \in 1..Len(CountKeys) |-> locations[CountKeys[j]]])

\* A is used by a tag and by the client: two categories, two uses.
C8_Witness ==
    /\ pc = "counted"
    /\ usage_counts[A].usage_locations["tags"] = 1
    /\ usage_counts[A].usage_locations["clients"] = 1
    /\ usage_counts[A].minimum_reevaluations = 2
    /\ usage_counts[A].potential_reevaluations = 2

\* C28: for every variable of the index, minimum_reevaluations <=
\* potential_reevaluations <= total_references, evaluation_contexts equals
\* minimum_reevaluations, and the count of each of the six categories is
\* the number of names listed for it in usage_components.
C28_UsageRecordBounds ==
    pc = "counted" =>
        \A n \in VariableNameSet :
            /\ usage_counts[n].minimum_reevaluations
                  <= usage_counts[n].potential_reevaluations
            /\ usage_counts[n].potential_reevaluations
                  <= usage_counts[n].total_references
            /\ usage_counts[n].evaluation_contexts
                  = usage_counts[n].minimum_reevaluations
            /\ \A k \in CountKeySet :
                  usage_counts[n].usage_locations[k]
                      = Len(usage_counts[n].usage_components[k])

\* C28 happens: the three numbers of A differ, two components of one
\* category use A and one of them mentions it twice.
C28_Witness ==
    /\ pc = "counted"
    /\ usage_counts[A].minimum_reevaluations = 1
    /\ usage_counts[A].potential_reevaluations = 2
    /\ usage_counts[A].total_references = 3
    /\ \E k \in CountKeySet : Len(usage_counts[A].usage_components[k]) = 2

\* C9: a use by a variable whose type starts with cvt_ is recorded under
\* custom_templates (count and name) and not under variables; a use by a
\* variable of another type is recorded under variables.
C9_CustomTemplateVariables ==
    pc = "counted" =>
        \A n \in VariableNameSet :
            /\ \A i \in 1..Len(variables) :
                  LET r == NameOf(variables[i])
                      cvt == StartsWithCvt(Get(variables[i], K_type, Str(<<>>)).str)
                  IN  (r # n /\ n \in get_variable_references_in_object(variables[i])) =>
                        /\ (r \in Range(usage_counts[n].usage_components["custom_templates"]))
                              <=> cvt
                        /\ (r \in Range(usage_counts[n].usage_components["variables"]))
                              <=> ~cvt
            /\ usage_counts[n].usage_locations["variables"]
                  = Cardinality({i \in 1..Len(variables) :
                        /\ NameOf(variables[i]) # n
                        /\ n \in get_variable_references_in_object(variables[i])
                        /\ ~StartsWithCvt(Get(variables[i], K_type, Str(<<>>)).str)})
            /\ usage_counts[n].usage_locations["custom_templates"]
                  = Cardinality({i \in 1..Len(variables) :
                        /\ NameOf(variables[i]) # n
                        /\ n \in get_variable_references_in_object(variables[i])
                        /\ StartsWithCvt(Get(variables[i], K_type, Str(<<>>)).str)})
                    + Cardinality({i \in 1..Len(custom_templates) :
                        n \in get_variable_references_in_object(custom_templates[i])})

\* The custom-template variable B mentions A and is recorded under A's
\* custom_templates.
C9_Witness ==
    /\ pc = "counted"
    /\ StartsWithCvt(Get(variables[2], K_type, Str(<<>>)).str)
    /\ A \in get_variable_references_in_object(variables[2])
    /\ usage_counts[A].usage_locations["custom_templates"] = 1
    /\ usage_counts[A].usage_locations["variables"] = 0
    /\ B \in Range(usage_counts[A].usage_components["custom_templates"])

\* The names and marked names of the components whose references all match
\* no variable.
OnlyUnresolved(es) ==
    UNION {{NameOf(es[i].component), NameOf(es[i].component) \o PausedSuffix} :
              i \in {j \in 1..Len(es) :
                 /\ get_variable_references_in_object(es[j].component) # {}
                 /\ get_variable_references_in_object(es[j].component)
                       \cap VariableNameSet = {}}}

\* C10: a reference that matches no variable raises no error, creates no
\* entry in the usage mappings and adds its component to no usage list of
\* any variable.
C10_UnresolvedIgnored ==
    /\ pc # "error"
    /\ pc \in {"detailed", "counted"} =>
          LET ignored == OnlyUnresolved(AllEntries)
          IN  /\ DOMAIN usage_details = VariableNameSet
              /\ \A n \in VariableNameSet : \A k \in DetailKeySet :
                    Range(usage_details[n][k]) \cap ignored = {}
    /\ pc = "counted" =>
          LET ignored == OnlyUnresolved(AllEntries)
          IN  /\ DOMAIN usage_counts = VariableNameSet
              /\ \A n \in VariableNameSet : \A k \in CountKeySet :
                    Range(usage_counts[n].usage_components[k]) \cap ignored = {}

\* The index has been built for a container in which a tag that takes part
\* mentions a name no variable carries, next to a tag that mentions A.
C10_Witness ==
    /\ pc = "counted"
    /\ Unresolvable \in get_variable_references_in_object(tags[1])
    /\ ~IsPaused(tags[1])
    /\ usage_counts[A].usage_locations["tags"] = 1
    /\ usage_counts[A].total_references = 1

(***************************************************************************)
(* Properties of the duplicate groups.                                     *)
(***************************************************************************)
\* The groups of all buckets, and the names of the entries of a group.
AllGroups ==
    UNION {Range(duplicate_variables[b]) : b \in DOMAIN duplicate_variables}
NamesOf(group) == {group[i].name : i \in 1..Len(group)}

\* The variables A and B are entries of one group (of the bucket, of any).
TogetherIn(bucket, a, b) ==
    \E g \in Range(duplicate_variables[bucket]) : {a, b} \subseteq NamesOf(g)
Together(a, b) == \E g \in AllGroups : {a, b} \subseteq NamesOf(g)
Grouped(a) == \E g \in AllGroups : a \in NamesOf(g)

\* The type of a variable and whether its parameters carry the key k, and
\* the value they give it.
TypeIs(var, t) == Get(var, K_type, Null) = Str(t)
Carries(var, k) == InKeyInfo(Get(var, K_parameter, List(<<>>)), k)
ValueOf(var, k) == KeyInfo(Get(var, K_parameter, List(<<>>)), k)

\* C11: every reported group, in every bucket, has at least 2 entries, and
\* a variable that holds its grouping key alone is in no group.
C11_GroupsHaveTwo ==
    pc = "grouped" =>
        /\ DOMAIN duplicate_variables = Range(BucketNames)
        /\ \A g \in AllGroups : Len(g) >= 2
        /\ \A i \in 1..Len(variables) :
              (/\ BucketOf(variables[i]) # ""
               /\ \A j \in 1..Len(variables) :
                     j # i => ~(/\ BucketOf(variables[j]) = BucketOf(variables[i])
                               /\ GroupKey(variables[j]) = GroupKey(variables[i])))
              => ~Grouped(NameOf(variables[i]))

\* Two event-data variables with the same keyPath form a group of 2, and a
\* third one with a keyPath of its own is in no group.
C11_Witness ==
    /\ pc = "grouped"
    /\ \A i \in 1..3 : TypeIs(variables[i], <<"ed">>) /\ Carries(variables[i], <<"keyPath">>)
    /\ ValueOf(variables[1], <<"keyPath">>) = ValueOf(variables[2], <<"keyPath">>)
    /\ ValueOf(variables[3], <<"keyPath">>) # ValueOf(variables[1], <<"keyPath">>)
    /\ Len(duplicate_variables["event_data_duplicates"]) = 1
    /\ Len(duplicate_variables["event_data_duplicates"][1]) = 2
    /\ ~Grouped(NameOf(variables[3]))

\* The parameter that the rule of a type asks for.
RequiredTypes == {<<"v">>, <<"ed">>, <<"k">>, <<"j">>}
RequiredOf(t) ==
    IF t = <<"ed">> THEN <<"keyPath">>
    ELSE IF t = <<"u">> THEN <<"component">>
    ELSE <<"name">>

\* The variables of a type in Ts are in no group when they lack the
\* parameter their type asks for.
LackingExcluded(Ts) ==
    \A i \in 1..Len(variables) : \A t \in Ts :
        (TypeIs(variables[i], t) /\ ~Carries(variables[i], RequiredOf(t)))
        => ~Grouped(NameOf(variables[i]))

\* C12 as stated: a variable of type v, ed, k, j or u that lacks the
\* parameter of its type (name, keyPath, name, name, component) is in no group.
C12_MissingKeyExcluded ==
    pc = "grouped" => LackingExcluded(RequiredTypes \cup {<<"u">>})

\* C12 amended: a variable of type v, ed, k or j that lacks the parameter of
\* its type is in no group; a variable of type u without a component is
\* keyed with the component UNSPECIFIED, so two of them that carry neither a
\* queryKey nor a customUrlSource are in one group of url_duplicates.
C12_MissingKeyExcludedButUrl ==
    pc = "grouped" =>
        /\ LackingExcluded(RequiredTypes)
        /\ \A i, j \in 1..Len(variables) :
              (/\ i # j
               /\ \A n \in {i, j} :
                     /\ TypeIs(variables[n], <<"u">>)
                     /\ ~Carries(variables[n], <<"component">>)
                     /\ ~Carries(variables[n], <<"queryKey">>)
                     /\ ~Carries(variables[n], <<"customUrlSource">>))
              => /\ TogetherIn("url_duplicates", NameOf(variables[i]), NameOf(variables[j]))
                 /\ \A g \in Range(duplicate_variables["url_duplicates"]) :
                       \A n \in 1..Len(g) :
                          g[n].name = NameOf(variables[i])
                          => g[n].component = Str(<<"UNSPECIFIED">>)

\* A data-layer variable without a name is in no group, next to two URL
\* variables without a component that form a group.
C12_Witness ==
    /\ pc = "grouped"
    /\ TypeIs(variables[1], <<"v">>) /\ ~Carries(variables[1], <<"name">>)
    /\ ~Grouped(NameOf(variables[1]))
    /\ \A n \in {2, 3} :
          TypeIs(variables[n], <<"u">>) /\ ~Carries(variables[n], <<"component">>)
    /\ TogetherIn("url_duplicates", NameOf(variables[2]), NameOf(variables[3]))

\* The queryKey parameter of a variable, absent or with its value, and the
\* same for customUrlSource.
ParameterOf(var, k) ==
    IF Carries(var, k) THEN <<ValueOf(var, k)>> ELSE <<>>

\* C13: two URL variables with the same component but different queryKey
\* parameters (or, when neither has a queryKey, different customUrlSource
\* parameters) are never in the same group of url_duplicates.
C13_UrlRefinementSeparates ==
    pc = "grouped" =>
        \A i, j \in 1..Len(variables) :
            (/\ i # j
             /\ TypeIs(variables[i], <<"u">>) /\ TypeIs(variables[j], <<"u">>)
             /\ Carries(variables[i], <<"component">>)
             /\ Carries(variables[j], <<"component">>)
             /\ ValueOf(variables[i], <<"component">>) = ValueOf(variables[j], <<"component">>)
             /\ \/ ParameterOf(variables[i], <<"queryKey">>)
                      # ParameterOf(variables[j], <<"queryKey">>)
                \/ /\ ~Carries(variables[i], <<"queryKey">>)
                   /\ ~Carries(variables[j], <<"queryKey">>)
                   /\ ParameterOf(variables[i], <<"customUrlSource">>)
                         # ParameterOf(variables[j], <<"customUrlSource">>))
            => ~TogetherIn("url_duplicates", NameOf(variables[i]), NameOf(variables[j]))

\* The key the rule of a type compares, and the bucket of the type.
SemanticKey(var, t) ==
    IF t = <<"v">>
    THEN <<ValueOf(var, <<"name">>),
           KeyInfoGet(Get(var, K_parameter, List(<<>>)), <<"dataLayerVersion">>,
                      Str(<<"2">>))>>
    ELSE <<ValueOf(var, RequiredOf(t))>>
BucketFor(t) ==
    IF t = <<"v">> THEN "data_layer_duplicates"
    ELSE IF t = <<"ed">> THEN "event_data_duplicates"
    ELSE IF t = <<"k">> THEN "cookie_duplicates"
    ELSE "js_variable_duplicates"

\* C14: for the types v, ed, k and j, two variables are together in a group
\* exactly if they have the same type, both carry the parameter of the type
\* and their keys are equal (keyPath for ed, name for k and j, name and
\* dataLayerVersion, "2" when absent, for v); the group is in the bucket of
\* the type.
C14_GroupedIffSameKey ==
    pc = "grouped" =>
        \A i, j \in 1..Len(variables) :
            LET vi == variables[i]
                vj == variables[j]
                same == \E t \in RequiredTypes :
                           /\ TypeIs(vi, t) /\ TypeIs(vj, t)
                           /\ Carries(vi, RequiredOf(t)) /\ Carries(vj, RequiredOf(t))
                           /\ SemanticKey(vi, t) = SemanticKey(vj, t)
            IN  (i # j /\ \E t \in RequiredTypes : TypeIs(vi, t) \/ TypeIs(vj, t))
                => /\ Together(NameOf(vi), NameOf(vj)) <=> same
                   /\ \A t \in RequiredTypes :
                         (TypeIs(vi, t) /\ Together(NameOf(vi), NameOf(vj)))
                         => /\ TogetherIn(BucketFor(t), NameOf(vi), NameOf(vj))
                            /\ \A b \in DOMAIN duplicate_variables \ {BucketFor(t)} :
                                  ~TogetherIn(b, NameOf(vi), NameOf(vj))

\* Two data-layer variables with the same name, one without a version and
\* one with version 2, are in one group; a third with version 1 is not.
C14_Witness ==
    /\ pc = "grouped"
    /\ \A n \in 1..3 : TypeIs(variables[n], <<"v">>) /\ Carries(variables[n], <<"name">>)
    /\ ~Carries(variables[1], <<"dataLayerVersion">>)
    /\ ParameterOf(variables[2], <<"dataLayerVersion">>) = <<Str(<<"2">>)>>
    /\ ParameterOf(variables[3], <<"dataLayerVersion">>) = <<Str(<<"1">>)>>
    /\ ValueOf(variables[1], <<"name">>) = ValueOf(variables[3], <<"name">>)
    /\ TogetherIn("data_layer_duplicates", NameOf(variables[1]), NameOf(variables[2]))
    /\ ~Grouped(NameOf(variables[3]))

\* A custom-template variable, and the parameters of a variable as a set.
IsTemplateVariable(var) ==
    LET var_type == Get(var, K_type, Null)
    IN  Truthy(var_type) /\ StartsWithCvt(var_type.str)
ParameterSet(var) == Range(Get(var, K_parameter, List(<<>>)).items)
CandidateSet == Range(TemplateKeyParams)

\* C15: for custom-template variables the key does not depend on the order
\* of the parameter list (two variables of one type whose lists hold the
\* same parameters in any order are grouped), a variable with none of the
\* five candidate parameters is in no group, and two variables are in one
\* group only if they have the same type and the same candidate parameters.
C15_TemplateKey ==
    pc = "grouped" =>
        /\ \A i, j \in 1..Len(variables) :
              (/\ i # j
               /\ IsTemplateVariable(variables[i]) /\ IsTemplateVariable(variables[j])
               /\ Get(variables[i], K_type, Null) = Get(variables[j], K_type, Null)
               /\ ParameterSet(variables[i]) = ParameterSet(variables[j])
               /\ \E k \in CandidateSet : Carries(variables[i], k))
              => TogetherIn("custom_template_duplicates",
                            NameOf(variables[i]), NameOf(variables[j]))
        /\ \A i \in 1..Len(variables) :
              (/\ IsTemplateVariable(variables[i])
               /\ \A k \in CandidateSet : ~Carries(variables[i], k))
              => ~Grouped(NameOf(variables[i]))
        /\ \A i, j \in 1..Len(variables) :
              (/\ i # j
               /\ IsTemplateVariable(variables[i])
               /\ Together(NameOf(variables[i]), NameOf(variables[j])))
              => /\ Get(variables[i], K_type, Null) = Get(variables[j], K_type, Null)
                 /\ \A k \in CandidateSet :
                       ParameterOf(variables[i], k) = ParameterOf(variables[j], k)

\* The places of the output where a variable is an entry: the bucket, the
\* number of the group and the number of the entry.
Appearances(a) ==
    {bge \in {<<b, g, e>> : b \in DOMAIN duplicate_variables,
                            g \in 1..MaxDupVars, e \in 1..MaxDupVars} :
        /\ bge[2] <= Len(duplicate_variables[bge[1]])
        /\ bge[3] <= Len(duplicate_variables[bge[1]][bge[2]])
        /\ duplicate_variables[bge[1]][bge[2]][bge[3]].name = a}

\* The type of the variable is v, ed, k, j, u or a text that starts with cvt_.
GroupableType(var) ==
    LET var_type == Get(var, K_type, Null)
    IN  /\ var_type.kind = "str"
        /\ \/ var_type.str \in {<<"v">>, <<"ed">>, <<"k">>, <<"j">>, <<"u">>}
           \/ Len(var_type.str) >= 1 /\ var_type.str[1] = "cvt_"

\* C29: every variable is an entry of at most one group over the seven
\* buckets, a variable whose type is none of v, ed, k, j, u, cvt_* is an
\* entry of no group, and other_duplicates is empty.
C29_OneGroupPerVariable ==
    pc = "grouped" =>
        /\ DOMAIN duplicate_variables = Range(BucketNames)
        /\ Len(BucketNames) = 7
        /\ \A i \in 1..Len(variables) :
              /\ Cardinality(Appearances(NameOf(variables[i]))) <= 1
              /\ ~GroupableType(variables[i]) => ~Grouped(NameOf(variables[i]))
        /\ duplicate_variables["other_duplicates"] = <<>>

\* C29 happens: two variables of type j are the two entries of the one
\* reported group, and a third variable of another type that names the same
\* source is left out.
C29_Witness ==
    /\ pc = "grouped"
    /\ TypeIs(variables[1], <<"j">>) /\ TypeIs(variables[2], <<"j">>)
    /\ ~GroupableType(variables[3])
    /\ \A i \in 1..3 : Carries(variables[i], <<"name">>)
    /\ ValueOf(variables[1], <<"name">>) = ValueOf(variables[3], <<"name">>)
    /\ Cardinality(Appearances(NameOf(variables[1]))) = 1
    /\ Cardinality(Appearances(NameOf(variables[2]))) = 1
    /\ Cardinality(AllGroups) = 1
    /\ ~Grouped(NameOf(variables[3]))

(***************************************************************************)
(* Properties of the unused-template detection.                            *)
(***************************************************************************)
\* The entries of the report that carry the name of template n.
EntriesOf(n) ==
    {i \in 1..Len(unused_custom_templates) :
        unused_custom_templates[i].name = Get(custom_templates[n], K_name, Null)}
Reported(n) == EntriesOf(n) # {}

\* The identifiers of a template: cvt_<containerId>_<templateId> and, for a
\* gallery template, the alias cvt_<galleryTemplateId>.
IdentifiersOf(template) ==
    {template_type(template)}
    \cup (IF Truthy(gallery_template_id(template))
          THEN {<<"cvt_">> \o gallery_template_id(template).str} ELSE {})

\* The category declared in templateData, "UNKNOWN" when it declares none of
\* the three or is no string.
DeclaredCategory(template) ==
    LET template_data == Get(template, K_templateData, Str(<<>>))
    IN  IF template_data.kind # "str" THEN "UNKNOWN"
        ELSE IF \E c \in Categories : template_data.str = CategoryText(c)
                    \/ template_data.str = CategoryText(c) \o IdText
             THEN CHOOSE c \in Categories : template_data.str = CategoryText(c)
                    \/ template_data.str = CategoryText(c) \o IdText
             ELSE "UNKNOWN"

\* The components of the kind that consumes a category.
ComponentsFor(category) ==
    CASE category = "MACRO"  -> Range(variables)
      [] category = "TAG"    -> Range(tags)
      [] category = "CLIENT" -> Range(clients)
      [] OTHER               -> {}

\* Some component consumes template n: its type is one of the identifiers of
\* the template and its kind is the one of the template's category.
Consumed(n) ==
    \E component \in ComponentsFor(DeclaredCategory(custom_templates[n])) :
        Get(component, K_type, Str(<<>>)).str \in IdentifiersOf(custom_templates[n])

\* C16: a custom template is reported as unused if and only if no component
\* consumes it, a consumer being a component of the kind of the template's
\* category (Variable for MACRO, Tag for TAG, Client for CLIENT) whose type
\* is one of the template's identifiers.
C16_UnusedIffNoConsumer ==
    pc = "templates_done" =>
        \A n \in 1..Len(custom_templates) : Reported(n) <=> ~Consumed(n)

\* C17: every unused custom template is reported exactly once, whatever the
\* aliases it is tracked under and whatever the fingerprints of the
\* templates, equal or missing ones included.
C17_ReportedExactlyOnce ==
    pc = "templates_done" =>
        \A n \in 1..Len(custom_templates) :
            n \notin UsedTemplates(TemplateUsage(Len(custom_templates)))
                => Cardinality(EntriesOf(n)) = 1

\* C18: a custom template whose templateData declares no TAG, MACRO or CLIENT
\* category, or is no string, is reported as unused with category UNKNOWN,
\* whatever components carry its type.
C18_UnknownReportedUnused ==
    pc = "templates_done" =>
        \A n \in 1..Len(custom_templates) :
            DeclaredCategory(custom_templates[n]) = "UNKNOWN"
                => \E i \in EntriesOf(n) :
                      unused_custom_templates[i].category = "UNKNOWN"

\* Template n is the only one tracked under its identifier
\* cvt_<containerId>_<templateId>, and a tag carries that identifier.
OwnTagOf(n, j) ==
    /\ Get(tags[j], K_type, Str(<<>>)) = Str(template_type(custom_templates[n]))
    /\ \A m \in 1..Len(custom_templates) :
          m # n => template_type(custom_templates[n])
                      \notin Range(TemplateIds(custom_templates[m]))

\* C30: the result of find_unused_custom_templates does not depend on
\* include_paused_tags.  After either run a TAG template that a tag carries
\* the identifier of, a paused tag included, is not reported, and the run with
\* the other value of the flag on the same container returns the list the
\* first run returned.
C30_PolicyIndependent ==
    pc = "templates_done" =>
        /\ \A n \in 1..Len(custom_templates), j \in 1..Len(tags) :
              (DeclaredCategory(custom_templates[n]) = "TAG" /\ OwnTagOf(n, j))
                  => ~Reported(n)
        /\ DOMAIN report # {}
              => unused_custom_templates = report.unused_custom_templates

\* C30 happens: both runs are done, the second one with paused tags
\* excluded, the only tag is paused and carries the identifier of the first
\* template, a TAG template, and only the second template is reported.
C30_Witness ==
    /\ pc = "templates_done"
    /\ DOMAIN report # {}
    /\ ~include_paused_tags
    /\ Len(tags) = 1 /\ IsPaused(tags[1])
    /\ variables = <<>> /\ clients = <<>>
    /\ DeclaredCategory(custom_templates[1]) = "TAG"
    /\ OwnTagOf(1, 1)
    /\ ~Reported(1)
    /\ Reported(2)
    /\ report.unused_custom_templates = unused_custom_templates

(***************************************************************************)
(* Properties of the impact estimator.                                     *)
(***************************************************************************)
\* Trigger i is attached to a tag that is not paused: its triggerId is among
\* the firing triggers of such a tag.
ActiveTrigger(i) ==
    \E j \in 1..Len(tags) :
        /\ ~IsPaused(tags[j])
        /\ Get(triggers[i], K_triggerId, Null)
              \in Range(Get(tags[j], K_firingTriggerId, List(<<>>)).items)

\* The names of the components that have an entry in a list of details.
DetailNamesOf(details) == {details[i].name.str : i \in 1..Len(details)}

\* The names reached from the set S of names by the references of the
\* variables, S included.
RECURSIVE ReachedFrom(_)
ReachedFrom(S) ==
    LET more == S \cup UNION {get_variable_references_in_object(FindVariable(n)) :
                                 n \in {m \in S : HasVariable(m)}}
    IN  IF more = S THEN S ELSE ReachedFrom(more)

\* The names reached from the triggers that are active, and from the tags
\* that are not paused (their own text, their transformation list and the
\* templateData of their template).
ReachedFromActiveTriggers ==
    ReachedFrom(UNION {get_variable_references_in_object(triggers[i]) :
                          i \in {j \in 1..Len(triggers) : ActiveTrigger(j)}})
ReachedFromActiveTags ==
    ReachedFrom(UNION {get_variable_references_in_object(tags[i]) \cup template_refs(tags[i]) :
                          i \in {j \in 1..Len(tags) : ~IsPaused(tags[j])}})

\* C20: a trigger is counted in triggers_analyzed and has a trigger_details
\* entry exactly if its triggerId is a firing trigger of a tag that is not
\* paused; a tag is counted in tags_analyzed and has a tag_details entry
\* exactly if it is not paused; and a name referenced only by inactive
\* triggers, or only by paused tags, adds nothing to total_evaluations and
\* evaluations_by_variable.
C20_OnlyActiveContribute ==
    /\ pc \in {"trigger_impact", "tag_impact"} =>
          /\ \A i \in 1..Len(triggers) :
                NameOf(triggers[i]) \in DetailNamesOf(trigger_impact.trigger_details)
                    <=> ActiveTrigger(i)
          /\ trigger_impact.triggers_analyzed =
                Cardinality({i \in 1..Len(triggers) : ActiveTrigger(i)})
          /\ Len(trigger_impact.trigger_details) = trigger_impact.triggers_analyzed
          /\ DOMAIN trigger_impact.evaluations_by_variable \subseteq ReachedFromActiveTriggers
          /\ (ReachedFromActiveTriggers = {} => trigger_impact.total_evaluations = 0)
    /\ pc = "tag_impact" =>
          /\ \A i \in 1..Len(tags) :
                NameOf(tags[i]) \in DetailNamesOf(tag_impact.tag_details)
                    <=> ~IsPaused(tags[i])
          /\ tag_impact.tags_analyzed =
                Cardinality({i \in 1..Len(tags) : ~IsPaused(tags[i])})
          /\ Len(tag_impact.tag_details) = tag_impact.tags_analyzed
          /\ DOMAIN tag_impact.evaluations_by_variable \subseteq ReachedFromActiveTags
          /\ (ReachedFromActiveTags = {} => tag_impact.total_evaluations = 0)

\* C20 happens: a trigger that refers to a variable is attached to a paused
\* tag only and has no entry, and the paused tag, which refers to a variable
\* too, has none either, while another tag has one.
C20_Witness ==
    /\ pc = "tag_impact"
    /\ \E i \in 1..Len(triggers) :
          /\ ~ActiveTrigger(i)
          /\ get_variable_references_in_object(triggers[i]) # {}
          /\ \E j \in 1..Len(tags) :
                /\ IsPaused(tags[j])
                /\ Get(triggers[i], K_triggerId, Null)
                      \in Range(Get(tags[j], K_firingTriggerId, List(<<>>)).items)
          /\ NameOf(triggers[i]) \notin DetailNamesOf(trigger_impact.trigger_details)
    /\ tag_impact.tags_analyzed = 1
    /\ trigger_impact.total_evaluations = 0

\* A tag takes part under the policy of the flag: it is not paused, or
\* paused tags are included.
Participates(tag) == ~IsPaused(tag) \/ include_paused_tags

\* Trigger i is attached to a tag that takes part under the policy.
ParticipatingTrigger(i) ==
    \E j \in 1..Len(tags) :
        /\ Participates(tags[j])
        /\ Get(triggers[i], K_triggerId, Null)
              \in Range(Get(tags[j], K_firingTriggerId, List(<<>>)).items)

\* C21: include_paused_tags controls whether paused tags take part in the
\* impact analyses: with the flag set a paused tag has a tag_details entry,
\* its references are in evaluations_by_variable, and a trigger attached
\* only to paused tags has a trigger_details entry; with the flag unset
\* they have none.
C21_FlagControlsImpact ==
    /\ pc \in {"trigger_impact", "tag_impact"} =>
          \A i \in 1..Len(triggers) :
              NameOf(triggers[i]) \in DetailNamesOf(trigger_impact.trigger_details)
                  <=> ParticipatingTrigger(i)
    /\ pc = "tag_impact" =>
          \A i \in 1..Len(tags) :
              /\ NameOf(tags[i]) \in DetailNamesOf(tag_impact.tag_details)
                    <=> Participates(tags[i])
              /\ Participates(tags[i]) =>
                    get_variable_references_in_object(tags[i])
                        \subseteq DOMAIN tag_impact.evaluations_by_variable

\* The names a tag refers to directly: those of its own text, of the
\* elements of its tag-level transformation list and, for a custom-template
\* tag, of the templateData of its template.
TagDirect(tag) ==
    get_variable_references_in_object(tag)
    \cup UNION {get_variable_references_in_object(tag_transformations(tag)[i]) :
                   i \in 1..Len(tag_transformations(tag))}
    \cup template_refs(tag)

\* 1 when v is a direct name, plus the resolver's count of v for each direct
\* name.
ExpectedCount(direct, v) ==
    (IF v \in direct THEN 1 ELSE 0)
    + SumSeq([i \in 1..Cardinality(direct) |->
                 CountAt(all_references(SetToSeq(direct)[i], {}), v)])

\* The mapping m is the one expected for the direct names: the expected
\* count for every name, and no entry for a name whose count is 0.
IsExpected(m, direct) ==
    /\ \A v \in DOMAIN m : m[v] >= 1
    /\ \A v \in (DOMAIN m) \cup direct \cup VarNames \cup {Unresolvable} :
          CountAt(m, v) = ExpectedCount(direct, v)

\* C22: all_variables of every active trigger and of every tag that is not
\* paused is 1 for each distinct name the component refers to directly (for
\* a tag, its transformation list and its template's templateData included)
\* plus the resolver's counts for each of those names; for a tag with {{A}}
\* where A holds {{B}} it is exactly {A: 1, B: 1}.
C22_AllVariables ==
    /\ pc \in {"trigger_impact", "tag_impact"} =>
          \A i \in 1..Len(triggers) :
              ActiveTrigger(i) =>
                  \E j \in 1..Len(trigger_impact.trigger_details) :
                      /\ trigger_impact.trigger_details[j].name.str = NameOf(triggers[i])
                      /\ IsExpected(trigger_impact.trigger_details[j].all_variables,
                                    get_variable_references_in_object(triggers[i]))
    /\ pc = "tag_impact" =>
          \A i \in 1..Len(tags) :
              ~IsPaused(tags[i]) =>
                  \E j \in 1..Len(tag_impact.tag_details) :
                      /\ tag_impact.tag_details[j].name.str = NameOf(tags[i])
                      /\ IsExpected(tag_impact.tag_details[j].all_variables,
                                    TagDirect(tags[i]))
                      /\ (/\ TagDirect(tags[i]) = {A}
                          /\ DirectRefs(A) = {B}
                          /\ DirectRefs(B) = {})
                         => tag_impact.tag_details[j].all_variables = [v \in {A, B} |-> 1]

\* C22 happens: a tag that is not paused holds {{A}} only, A holds {{B}}, and
\* its entry has all_variables = {A: 1, B: 1}; another tag takes a name from
\* its transformation list.
C22_Witness ==
    /\ pc = "tag_impact"
    /\ DirectRefs(A) = {B}
    /\ DirectRefs(B) = {}
    /\ \E j \in 1..Len(tag_impact.tag_details) :
          /\ tag_impact.tag_details[j].direct_variables = {A}
          /\ tag_impact.tag_details[j].all_variables = [v \in {A, B} |-> 1]

\* The sum of total_evaluations, and of count, over the entries of
\* tag_type_statistics.
StatisticsEvaluations(statistics) ==
    SumSeq([i \in 1..Cardinality(DOMAIN statistics) |->
               statistics[SetToSeq(DOMAIN statistics)[i]].total_evaluations])
StatisticsCount(statistics) ==
    SumSeq([i \in 1..Cardinality(DOMAIN statistics) |->
               statistics[SetToSeq(DOMAIN statistics)[i]].count])

\* The sum of the counts of all_variables over the entries of a list of
\* details.
DetailEvaluations(details) ==
    SumSeq([i \in 1..Len(details) |-> SumCounts(details[i].all_variables)])

\* C27: in both analyses total_evaluations equals the sum of
\* evaluations_by_variable, the sum of evaluations_by_type and the sum of
\* the all_variables counts of the components; in the tag analysis it also
\* equals the sum of total_evaluations over tag_type_statistics, and
\* tags_analyzed equals the sum of the count fields.
C27_TotalsAgree ==
    /\ pc \in {"trigger_impact", "tag_impact"} =>
          /\ trigger_impact.total_evaluations
                = SumCounts(trigger_impact.evaluations_by_variable)
          /\ trigger_impact.total_evaluations
                = SumCounts(trigger_impact.evaluations_by_type)
          /\ trigger_impact.total_evaluations
                = DetailEvaluations(trigger_impact.trigger_details)
    /\ pc = "tag_impact" =>
          /\ tag_impact.total_evaluations = SumCounts(tag_impact.evaluations_by_variable)
          /\ tag_impact.total_evaluations = SumCounts(tag_impact.evaluations_by_type)
          /\ tag_impact.total_evaluations = DetailEvaluations(tag_impact.tag_details)
          /\ tag_impact.total_evaluations
                = StatisticsEvaluations(tag_impact.tag_type_statistics)
          /\ tag_impact.tags_analyzed = StatisticsCount(tag_impact.tag_type_statistics)

\* C27 happens: both tags are analysed, a name is reached from both of
\* them, and the total is 3 over two names.
C27_Witness ==
    /\ pc = "tag_impact"
    /\ tag_impact.tags_analyzed = 2
    /\ \E v \in DOMAIN tag_impact.evaluations_by_variable :
          tag_impact.evaluations_by_variable[v] = 2
    /\ Cardinality(DOMAIN tag_impact.evaluations_by_variable) = 2
    /\ tag_impact.total_evaluations = 3

(***************************************************************************)
(* Properties of the run on a malformed document.                          *)
(***************************************************************************)
\* The collection as the analyzer holds it after the constructor.
Collection(key) ==
    CASE key = <<"variable">> -> variables
      [] key = <<"tag">> -> tags
      [] key = <<"trigger">> -> triggers
      [] key = <<"transformation">> -> transformations
      [] key = <<"client">> -> clients
      [] key = <<"customTemplate">> -> custom_templates

\* C19: on a document without containerVersion, or with a collection key
\* that holds a value that is no list, the constructor, then
\* generate_detailed_report and the two impact analyses raise no exception,
\* and the collection of every such key is empty.
C19_MalformedDegradesToEmpty ==
    /\ pc # "error"
    /\ pc = "tag_impact" =>
          \A key \in Range(CollectionKeys) :
              Held(key).kind # "list" => Collection(key) = <<>>

(***************************************************************************)
(* Properties of the scanner and of the counter.                           *)
(***************************************************************************)
\* The well-formed spans of a text: <<i, j>> where the text has {{ at i,
\* }} ending at j, and between them at least one character and no "}".
SpansOf(s) ==
    {a \in (1..Len(s)) \X (1..Len(s)) :
        /\ a[2] >= a[1] + 4
        /\ s[a[1]] = LB /\ s[a[1] + 1] = LB
        /\ s[a[2] - 1] = RB /\ s[a[2]] = RB
        /\ \A k \in (a[1] + 2)..(a[2] - 2) : s[k] # RB}

\* No two spans of the text share a position.
NonOverlapping(s) ==
    \A a \in SpansOf(s) : \A b \in SpansOf(s) : a = b \/ a[2] < b[1] \/ b[2] < a[1]

\* The X of the spans of the text.
SpanNames(s) == {SubSeq(s, a[1] + 2, a[2] - 2) : a \in SpansOf(s)}

\* The texts reached from a value through the values of mappings and the
\* elements of lists, one entry for each place.
RECURSIVE StringList(_)
StringList(v) ==
    CASE v.kind = "str" -> <<v.str>>
      [] v.kind \in {"dict", "list"} ->
            IF v.items = <<>> THEN <<>>
            ELSE StringList(Head(v.items))
                 \o StringList([v EXCEPT !.items = Tail(v.items)])
      [] OTHER -> <<>>

\* C23: for a text whose well-formed spans {{X}} do not overlap the scanner
\* returns exactly the set of their X, each span matched on its own
\* ({{A}} {{B}} gives {A, B}); for a mapping the union over its values, the
\* keys not scanned; for a list the union over its elements; for a number,
\* a boolean or null the empty set, at any depth.
C23_ScannerResult ==
    pc \in {"scanned", "counted"} =>
        /\ scan_references \subseteq UNION {SpanNames(t) : t \in Range(StringList(scan_obj))}
        /\ (\A t \in Range(StringList(scan_obj)) : NonOverlapping(t))
              => scan_references = UNION {SpanNames(t) : t \in Range(StringList(scan_obj))}
        /\ scan_obj.kind \in {"num", "bool", "null"} => scan_references = {}
        /\ scan_obj = Str(RefText(A) \o <<" ">> \o RefText(B)) => scan_references = {A, B}

\* C23 happens: the scanner has returned {A, B} for {{A}} {{B}}.
C23_Witness ==
    /\ pc = "scanned"
    /\ scan_obj = Str(RefText(A) \o <<" ">> \o RefText(B))
    /\ scan_references = {A, B}

\* The positions at which the text p occurs in the text s.
Positions(s, p) ==
    {i \in 1..(Len(s) - Len(p) + 1) : SubSeq(s, i, i + Len(p) - 1) = p}

\* C24: the counter returns the number of occurrences of the text {{name}},
\* summed over every text reached through the values of mappings and the
\* elements of lists (occurrences of the token of a name without braces
\* never overlap); the name is matched literally ("." is no wildcard), the
\* token {{AB}} is no occurrence of A, and keys, numbers, booleans and null
\* add 0.
C24_CounterResult ==
    pc = "counted" =>
        /\ scan_count =
              SumSeq([i \in 1..Len(StringList(scan_obj)) |->
                         Cardinality(Positions(StringList(scan_obj)[i],
                                               RefText(scan_var_name)))])
        /\ (scan_obj = Str(RefText(<<"A", "B">>)) /\ scan_var_name \in {A, B})
              => scan_count = 0
        /\ (scan_obj = Str(RefText(A)) /\ scan_var_name = <<".">>) => scan_count = 0
        /\ scan_obj.kind \in {"num", "bool", "null"} => scan_count = 0

\* C24 happens: the counter has returned 2 for a text that holds {{A}}
\* twice and {{AB}} once.
C24_Witness ==
    /\ pc = "counted"
    /\ scan_var_name = A
    /\ scan_obj = Str(RefText(A) \o RefText(<<"A", "B">>) \o RefText(A))
    /\ scan_count = 2

(***************************************************************************)
(* Properties of the saved report.                                         *)
(***************************************************************************)
\* C25: in the saved report unknown_types lists, per category, every type
\* that was looked up during the run and is in no table of display names:
\* the sets the analyzer holds at the end of the run are in it, and so is
\* the type of every analysed tag that the tag-type table lacks.
C25_UnknownTypesReported ==
    pc = "saved" =>
        /\ unknown_tag_types \subseteq report.unknown_types.tag_types
        /\ unknown_variable_types \subseteq report.unknown_types.variable_types
        /\ \A i \in 1..Len(tags) :
              (/\ ~IsPaused(tags[i])
               /\ tag_type_unknown(Get(tags[i], K_type, Str(<<"Unknown">>)).str))
              => Get(tags[i], K_type, Str(<<"Unknown">>)).str
                    \in report.unknown_types.tag_types

====
